---- MODULE Spec2Model ----
(***************************************************************************)
(* Model of the proxy verification engine: class ProxyChecker              *)
(* (src/src/main/checker.ts) together with the two persistence calls it    *)
(* makes, updateProxy and deleteProxies (the database module, lines        *)
(* 262..552 of src/src/main/parsers/index.ts).                             *)
(*                                                                         *)
(* JavaScript runs one continuation at a time, so every action below is    *)
(* the code that runs between two suspension points (await) of checkAll,   *)
(* detectMyIp, processNext, checkProxy and checkAnonymity.                 *)
(***************************************************************************)
EXTENDS Integers, Sequences, FiniteSets, TLC

(* ------------------------------ bounds -------------------------------- *)
MaxProxies == 2      \* longest candidate list handed to checkAll
MaxStops == 1        \* stop() invocations on one checker
MaxLogEvents == 510  \* addLog calls followed in the specification of the log
MaxHeaders == 2      \* entries of an echoed header object
MaxReuse == 1        \* further checkAll calls on a checker that has returned
MaxSources == 2      \* longest source list handed to parseFromSources
MaxDbOps == 3        \* calls on the proxies table that are followed
MaxInsert == 2       \* longest list handed to insertProxies
MaxUpdates == 102    \* calls of updateProxy that are followed
MaxRuns == 3         \* 'check-proxies' invocations that are followed
MaxTotal == 201      \* longest candidate list whose percent is computed

(* ------------------------- program constants -------------------------- *)
LogCap == 500        \* checker.ts:60
Undefined == -1      \* an absent optional number (CheckResult.latency)
DetectTimeout == 10000   \* checker.ts:147
FlushEvery == 100    \* parsers/index.ts:495

(* ------------------------- environment inputs ------------------------- *)
\* status codes the test request may answer with (validateStatus accepts all)
StatusCodes == {199, 200, 399, 400}
\* elapsed wall time of a test request, Date.now() - startTime
Latencies == {120}
\* the values of options.threads a checker is constructed with
Threads == {1, 2}
\* the values of options.timeout a checker is constructed with
Timeouts == {5000}
\* the processNext invocations a run can have: 1..max(Threads)
WorkerIds == {1, 2}
\* the verifier's own public address as httpbin reports it
SelfIp == "203.0.113.9"

Min(a, b) == IF a < b THEN a ELSE b

\* the ids of the rows the store starts with
Pool == {1, 2, 3}

\* transport kind of the stored row with id i
TypeOf(i) ==
  CASE i = 1 -> "HTTP"
    [] i = 2 -> "SOCKS5"
    [] OTHER -> "SOCKS6"

\* ProxyToCheck: the address is abstracted to a host number
Candidate(i) == [id |-> i, ip |-> i, port |-> 8080, type |-> TypeOf(i)]

NoProxy == [id |-> 0, ip |-> 0, port |-> 0, type |-> "none"]


(* --------------------------- pure functions --------------------------- *)

\* addLog that keeps the first 500 (slice(0, 500) for slice(-500))
addLog_KeepOldest(l, e) ==
  LET a == Append(l, e)
  IN  IF Len(a) > LogCap THEN SubSeq(a, 1, LogCap) ELSE a

\* addLog: push, then keep the last 500
addLog(l, e) ==
  LET a == Append(l, e)
  IN  IF Len(a) > LogCap THEN SubSeq(a, Len(a) - LogCap + 1, Len(a)) ELSE a

LogEntry(msg, id, arg, label) == [msg |-> msg, id |-> id, arg |-> arg, label |-> label]

\* buildProxyUrl: the protocol of the proxy URL
UrlProtocol(type) ==
  IF type \in {"SOCKS4", "SOCKS5", "SOCKS6", "SOCKS"}
    THEN (CASE type = "SOCKS4" -> "socks4"
            [] type = "SOCKS5" -> "socks5"
            [] type = "SOCKS6" -> "socks6"
            [] OTHER -> "socks")
    ELSE "http"

\* createAgent: a type containing SOCKS gets a SocksProxyAgent, whose
\* constructor throws for a protocol outside the socks family; every other
\* type gets an HttpsProxyAgent
AgentThrows(proxy) ==
  /\ proxy.type \in {"SOCKS4", "SOCKS5", "SOCKS6", "SOCKS"}
  /\ UrlProtocol(proxy.type) \notin {"socks", "socks4", "socks5"}

\* IsWorking that accepts the 2xx codes only
IsWorking_Only2xx(resp) == resp.status >= 200 /\ resp.status < 300

\* checkProxy line 202: the response counts as working
IsWorking(resp) == resp.status >= 200 /\ resp.status < 400

\* the result checkProxy starts from (lines 179..185)
InitialResult(proxy) ==
  [id |-> proxy.id, ip |-> proxy.ip, port |-> proxy.port, type |-> proxy.type,
   status |-> "dead", latency |-> Undefined, anonymity |-> "undefined"]

NoResult == InitialResult(NoProxy)

\* emitProgress: Math.round(checked / total * 100), half rounded up
Percent(c, t) == IF t > 0 THEN (200 * c + t) \div (2 * t) ELSE 0


(* ------------------------ anonymity classifier ------------------------ *)

\* a second address the verifier may have, written with capitals
SelfIp6 == "2001:DB8::9"

\* toLowerCase, on the strings that occur in header objects and addresses
Lower(s) ==
  CASE s = "Via"              -> "via"
    [] s = "X-Forwarded-For"  -> "x-forwarded-for"
    [] s = "X-Real-Ip"        -> "x-real-ip"
    [] s = "Proxy-Connection" -> "proxy-connection"
    [] s = "Forwarded"        -> "forwarded"
    [] s = "X-Via-Cache"      -> "x-via-cache"
    [] s = "Host"             -> "host"
    [] s = "User-Agent"       -> "user-agent"
    [] s = SelfIp6            -> "2001:db8::9"
    [] OTHER                  -> s

\* String.includes: the needles (own addresses in lower case,
\* proxy-revealing names) that occur in the lower-case string t
Contains(t) ==
  CASE t = "via"               -> {"via"}
    [] t = "okhttp via-client" -> {"via"}
    [] t = "x-via-cache"       -> {"via"}
    [] t = "x-forwarded-for"   -> {"x-forwarded-for", "forwarded"}
    [] t = "forwarded"         -> {"forwarded"}
    [] t = "x-real-ip"         -> {"x-real-ip"}
    [] t = "proxy-connection"  -> {"proxy-connection"}
    [] t = SelfIp              -> {SelfIp}
    [] t = "203.0.113.99"      -> {SelfIp}
    [] t = "2001:db8::9"       -> {"2001:db8::9"}
    [] OTHER                   -> {}

\* a header object is a set of [name, value] entries; Sub(s) is the set of
\* needles that occur in the lower-cased JSON text of the string s
Sub(s) == Contains(Lower(s))

\* JSON.stringify(headers).toLowerCase().includes(needle)
HeaderStrIncludes(headers, needle) ==
  \E e \in headers : needle \in (Sub(e.name) \cup Sub(e.value))

\* headers[h]: a property lookup by the exact (lower-case) name
HeaderLookup(headers, h) == \E e \in headers : e.name = h /\ e.value # ""

ProxyHeaders ==
  {"x-forwarded-for", "x-real-ip", "via", "x-proxy", "forwarded", "proxy-connection"}

\* checkAnonymity lines 243..269, for a response that arrived
Grade(ip, headers) ==
  IF ip # "" /\ HeaderStrIncludes(headers, Lower(ip)) THEN "transparent"
  ELSE IF \E h \in ProxyHeaders :
            HeaderLookup(headers, h) \/ HeaderStrIncludes(headers, h)
       THEN "anonymous"
       ELSE "elite"

\* checkAnonymity whose catch answers 'elite'
checkAnonymity_FailElite(ip, echo) == IF echo.ok THEN Grade(ip, echo.headers) ELSE "elite"

\* checkAnonymity: the catch turns a failed echo request into 'unknown'
checkAnonymity(ip, echo) == IF echo.ok THEN Grade(ip, echo.headers) ELSE "unknown"

PlainHeaders == {[name |-> "Host", value |-> "httpbin.org"]}

\* what the echo request (httpbin.org/headers through the proxy) may return
EchoOutcomes ==
  { [ok |-> FALSE, headers |-> {}],
    [ok |-> TRUE, headers |-> PlainHeaders],
    [ok |-> TRUE, headers |-> PlainHeaders \cup {[name |-> "Via", value |-> "1.1 proxy"]}],
    [ok |-> TRUE, headers |-> PlainHeaders \cup {[name |-> "X-Forwarded-For", value |-> SelfIp]}] }

\* what the test request may do: answer with a status, or fail (timeout,
\* connection refused, protocol error)
ProbeOutcomes ==
  { [ok |-> TRUE, status |-> s, latency |-> t] : s \in StatusCodes, t \in Latencies }
  \cup { [ok |-> FALSE, status |-> 0, latency |-> 0] }

\* what the self-address request (httpbin.org/ip) may do
DetectOutcomes == {"origin", "empty", "fail"}

(* ----------------------------- persistence ---------------------------- *)

NoRow == [present |-> FALSE, status |-> "none", latency |-> Undefined,
          anonymity |-> "undefined"]

\* updateProxy: UPDATE proxies SET <the fields that are not undefined>
\* WHERE id = ?
updateProxy(st, id, data) ==
  IF id \in DOMAIN st /\ st[id].present
    THEN [st EXCEPT ![id] =
            [present |-> TRUE,
             status |-> data.status,
             latency |-> IF data.latency # Undefined THEN data.latency ELSE @.latency,
             anonymity |-> IF data.anonymity # "undefined" THEN data.anonymity
                           ELSE @.anonymity]]
    ELSE st

\* deleteProxies: DELETE FROM proxies WHERE id IN (ids)
deleteProxies(st, ids) ==
  [i \in DOMAIN st |->
     IF \E k \in 1..Len(ids) : ids[k] = i THEN NoRow ELSE st[i]]

(* ------------------------------- state -------------------------------- *)
VARIABLES
  options,    \* CheckerOptions given to the constructor
  stopped, checked, working, dead, total, logs, deadIds, myIp, \* the fields
  pc,         \* where checkAll is: idle, detect, running, returned, rejected
  proxies,    \* checkAll's argument
  queue,      \* checkAll's queue
  results,    \* checkAll's results
  workers,    \* the processNext invocations
  store,      \* the rows of table proxies, by id
  events,     \* what the current run did to the outside, in order
  pendingStop,\* stop() was invoked while no run was active
  nStops,     \* stop() invocations so far
  history,    \* every entry handed to addLog since the log was last emptied
  classified, \* an echoed header object, the own address, and their grade
  reused,     \* how often the caller has called checkAll again on the instance
  agg,        \* one call of parseFromSources: arguments, locals, position
  db,         \* table proxies with its key columns, and the last call on it
  listener,   \* what is attached to the checker's 'progress' event
  flush,      \* pendingUpdates and saveTimeout of the database module
  ipc,        \* the module variable checker of the IPC handlers, and the runs
  race,       \* the rows a verification run was handed, and its last write
  pct,        \* the counters handed to emitProgress, and the percent it reports
  imp,        \* a line or record handed to a parser, and what the parser made of it
  view        \* the state of the Checker view, its handlers, and the runs it started

\* the variables that only the specifications of single functions use
auxVars == <<history, classified, reused, agg, db, listener, flush, ipc, race,
             pct, imp, view>>

vars == <<options, stopped, checked, working, dead, total, logs, deadIds, myIp,
          pc, proxies, queue, results, workers, store, events, pendingStop, nStops,
          auxVars>>

\* a processNext invocation; response is what its pending checkProxy got
\* from the test request (0: nothing, -1: an error, else the status code)
NoWorker == [st |-> "none", proxy |-> NoProxy, result |-> NoResult, threw |-> FALSE,
             response |-> 0]

NoEvent ==
  [kind |-> "none", id |-> 0, ip |-> 0, port |-> 0, status |-> "none",
   latency |-> Undefined, anonymity |-> "undefined", checked |-> 0, total |-> 0,
   working |-> 0, dead |-> 0, deleted |-> 0, percent |-> 0, ids |-> <<>>,
   last |-> FALSE, phase |-> "none", nresults |-> 0, queued |-> <<>>,
   timeout |-> 0]

\* a checker right after new ProxyChecker(options), and the stored rows
Constructed ==
  /\ options \in [threads : Threads, deleteDead : BOOLEAN,
                  checkAnonymity : BOOLEAN, timeout : Timeouts]
  /\ stopped = FALSE /\ checked = 0 /\ working = 0 /\ dead = 0 /\ total = 0
  /\ logs = <<>> /\ deadIds = <<>> /\ myIp = ""
  /\ pc = "idle" /\ proxies = <<>> /\ queue = <<>> /\ results = <<>>
  /\ workers = [i \in WorkerIds |-> NoWorker]
  /\ store = [i \in Pool |->
                [present |-> TRUE, status |-> "unchecked", latency |-> Undefined,
                 anonymity |-> "undefined"]]
  /\ events = <<>> /\ pendingStop = FALSE /\ nStops = 0

\* the variables of the single-function specifications, at rest
NoGrade == [ip |-> "", headers |-> {}, grade |-> "none"]

NoFilters == [given |-> FALSE, types |-> <<>>]

\* table proxies of a new database file (lines 299..317): no row, no id
\* handed out; op and prevKeys remember the last call and the keys stored
\* before it
EmptyDb == [rows |-> {}, last |-> 0, ops |-> 0,
            op |-> [kind |-> "none", list |-> <<>>], prevKeys |-> {}]

\* parseFromSources not called
NoAgg == [pc |-> "none", sources |-> <<>>, filters |-> NoFilters, idx |-> 0,
          tix |-> 0, part |-> <<>>, allProxies |-> <<>>, events |-> <<>>,
          perSource |-> <<>>, result |-> <<>>]

\* pendingUpdates = 0 and saveTimeout = null (lines 457..458); unflushed
\* counts the updates applied since the last saveDatabase
NoFlush == [pendingUpdates |-> 0, saveTimeout |-> FALSE, unflushed |-> 0, calls |-> 0]

\* let checker = null (line 133), no 'check-proxies' invoked yet; stop
\* remembers the last 'stop-checking': the newest run that was active when
\* it arrived, and the value of checker it found
NoIpc == [checker |-> 0, runs |-> <<>>, stop |-> [seen |-> FALSE, newest |-> 0, found |-> 0]]

\* no verification run holds rows of the table
NoRace == [held |-> {},
           last |-> [kind |-> "none", id |-> 0, ip |-> 0, port |-> 0, status |-> "none"]]

\* emitProgress not called
NoPct == [checked |-> 0, total |-> 0, percent |-> Undefined]

\* no parser called
NoImp == [fn |-> "none", stage |-> "idle", input |-> <<>>, output |-> <<>>,
          origin |-> <<>>]

\* the Checker view as mounted (part_000 lines 38..39 and the store's
\* isChecking: false), no run started
NoView == [isChecking |-> FALSE, showProgress |-> FALSE, checkProgress |-> FALSE,
           runs |-> <<>>, checker |-> 0, stopping |-> FALSE]

\* the variables of the IPC handlers and the database module, at rest; the
\* 'check-proxies' handler attaches a listener to every checker it makes
SideAtRest ==
  /\ listener = "attached"
  /\ flush = NoFlush
  /\ ipc = NoIpc /\ pct = NoPct /\ imp = NoImp /\ view = NoView
  /\ race = NoRace

AuxAtRest ==
  /\ history = <<>>
  /\ classified = NoGrade
  /\ reused = 0
  /\ agg = NoAgg
  /\ db = EmptyDb
  /\ SideAtRest

Init == Constructed /\ AuxAtRest


(* ------------------------- checkAll's building blocks ----------------- *)

\* the ids of the stored rows, in ascending order
RECURSIVE SortedIds(_)
SortedIds(S) ==
  IF S = {} THEN <<>>
  ELSE LET m == CHOOSE x \in S : \A y \in S : x <= y
       IN  <<m>> \o SortedIds(S \ {m})

\* the lists a caller can hand to checkAll: up to MaxProxies of the rows the
\* store holds, in ascending order of id
CandidateLists(st) ==
  { [k \in 1..Cardinality(S) |-> Candidate(SortedIds(S)[k])] :
      S \in { T \in SUBSET {i \in DOMAIN st : st[i].present} :
                Cardinality(T) <= MaxProxies } }

\* ShouldContinue without the test of the cancellation flag
ShouldContinue_IgnoreStop(q, stop) == Len(q) > 0

\* the while condition of processNext (line 92)
ShouldContinue(q, stop) == Len(q) > 0 /\ ~stop

\* WorkerCount without the clamp to the number of candidates
WorkerCount_Unclamped(threads, n) == threads

\* WorkerCount one short
WorkerCount_OffByOne(threads, n) == Min(threads, n) - 1

\* line 124
WorkerCount(threads, n) == Min(threads, n)

\* Snapshot whose deleted counts the collected ids only once they were deleted
Snapshot_DeletedLate(c, t, w, d, dIds, hasLast, r) ==
  [NoEvent EXCEPT !.kind = "progress", !.checked = c, !.total = t, !.working = w,
                  !.dead = d, !.deleted = IF hasLast THEN 0 ELSE Len(dIds),
                  !.percent = Percent(c, t),
                  !.last = hasLast,
                  !.ip = IF hasLast THEN r.ip ELSE 0,
                  !.port = IF hasLast THEN r.port ELSE 0,
                  !.status = IF hasLast THEN r.status ELSE "none",
                  !.latency = IF hasLast THEN r.latency ELSE Undefined,
                  !.anonymity = IF hasLast THEN r.anonymity ELSE "undefined"]

\* Snapshot that reports what is left to check in place of checked
Snapshot_Remaining(c, t, w, d, dIds, hasLast, r) ==
  [NoEvent EXCEPT !.kind = "progress", !.checked = t - c, !.total = t, !.working = w,
                  !.dead = d, !.deleted = Len(dIds), !.percent = Percent(c, t),
                  !.last = hasLast,
                  !.ip = IF hasLast THEN r.ip ELSE 0,
                  !.port = IF hasLast THEN r.port ELSE 0,
                  !.status = IF hasLast THEN r.status ELSE "none",
                  !.latency = IF hasLast THEN r.latency ELSE Undefined,
                  !.anonymity = IF hasLast THEN r.anonymity ELSE "undefined"]

\* emitProgress: the snapshot handed to the 'progress' listeners
Snapshot(c, t, w, d, dIds, hasLast, r) ==
  [NoEvent EXCEPT !.kind = "progress", !.checked = c, !.total = t, !.working = w,
                  !.dead = d, !.deleted = Len(dIds), !.percent = Percent(c, t),
                  !.last = hasLast,
                  !.ip = IF hasLast THEN r.ip ELSE 0,
                  !.port = IF hasLast THEN r.port ELSE 0,
                  !.status = IF hasLast THEN r.status ELSE "none",
                  !.latency = IF hasLast THEN r.latency ELSE Undefined,
                  !.anonymity = IF hasLast THEN r.anonymity ELSE "undefined"]

Ev(kind, id) == [NoEvent EXCEPT !.kind = kind, !.id = id]

\* CheckProxyCatch that lets the error escape checkProxy
CheckProxyCatch_Rethrow(result) == [threw |-> TRUE, result |-> result]

\* the catch of checkProxy (lines 217..221): the error is logged and the
\* outcome is dead; checkProxy returns normally
CheckProxyCatch(result) == [threw |-> FALSE, result |-> [result EXCEPT !.status = "dead"]]

\* Dequeue that reads the head without removing it (q[0] for q.shift())
Dequeue_Keep(q) == q

\* queue.shift() (line 93): what is left in the queue
Dequeue(q) == Tail(q)

\* CatchLog that swallows the error without a log entry
CatchLog_Silent(l, id, what) == l

\* the catch of checkProxy, lines 218..219: the error goes to the log
CatchLog(l, id, what) == addLog(l, LogEntry("error", id, 0, what))

\* processNext from the while condition to the first await: take the head of
\* the queue and start checkProxy on it (lines 92..96, 176..198), or leave
\* the loop.  c = [queue, logs, events, workers]
TakeNext(c, i, stop) ==
  IF ShouldContinue(c.queue, stop)
    THEN LET proxy == Head(c.queue)
             l1 == addLog(c.logs, LogEntry("probe", proxy.id, 0, proxy.type))
             e1 == Append(c.events, Ev("take", proxy.id))
         IN  IF AgentThrows(proxy)
               THEN LET caught == CheckProxyCatch(InitialResult(proxy))
                    IN  [queue |-> Dequeue(c.queue),
                         logs |-> CatchLog(l1, proxy.id, "agent"),
                         events |-> e1,
                         workers |-> [c.workers EXCEPT ![i] =
                            [st |-> "resolved", proxy |-> proxy,
                             result |-> caught.result, threw |-> caught.threw,
                             response |-> 0]]]
               ELSE [queue |-> Dequeue(c.queue),
                     logs |-> l1,
                     events |-> Append(e1, [Ev("get", proxy.id) EXCEPT
                                              !.timeout = options.timeout]),
                     workers |-> [c.workers EXCEPT ![i] =
                        [st |-> "probing", proxy |-> proxy,
                         result |-> InitialResult(proxy), threw |-> FALSE,
                         response |-> 0]]]
    ELSE [c EXCEPT !.workers[i].st = "done", !.workers[i].response = 0]

\* the for loop of lines 125..127: processNext() is called n times, each call
\* running up to its first await
RECURSIVE StartWorkers(_, _, _, _)
StartWorkers(c, i, n, stop) ==
  IF i > n THEN c ELSE StartWorkers(TakeNext(c, i, stop), i + 1, n, stop)

\* lines 85..129: the first snapshot, then the workers are started
Launch(l, ev, q, snap, n, stop) ==
  StartWorkers([queue |-> q, logs |-> l, events |-> Append(ev, snap),
                workers |-> [i \in WorkerIds |-> NoWorker]],
               1, WorkerCount(options.threads, n), stop)

\* lines 74..78
StartLogs(n) ==
  addLog(addLog(addLog(addLog(addLog(<<>>,
    LogEntry("start", 0, n, "")),
    LogEntry("threads", 0, options.threads, "")),
    LogEntry("url", 0, 0, "")),
    LogEntry("deleteDead", 0, 0, IF options.deleteDead THEN "yes" ELSE "no")),
    LogEntry("checkAnonymity", 0, 0, IF options.checkAnonymity THEN "yes" ELSE "no"))

\* Count whose increment of checked is lost once another outcome was
\* counted (a stale read of the counter)
Count_LostUpdate(c, w, d, result) ==
  [checked |-> IF c = 0 THEN 1 ELSE c,
   working |-> IF result.status = "working" THEN w + 1 ELSE w,
   dead    |-> IF result.status = "working" THEN d ELSE d + 1]

\* Count with the dead counter forgotten
Count_NoDead(c, w, d, result) ==
  [checked |-> c + 1,
   working |-> IF result.status = "working" THEN w + 1 ELSE w,
   dead    |-> d]

\* lines 113..118
Count(c, w, d, result) ==
  [checked |-> c + 1,
   working |-> IF result.status = "working" THEN w + 1 ELSE w,
   dead    |-> IF result.status = "working" THEN d ELSE d + 1]

\* CollectsDead that never collects: every outcome goes to updateProxy
CollectsDead_Never(result, deleteDead) == FALSE

\* line 100: the outcome is collected for the batch deletion instead of
\* being written to the store
CollectsDead(result, deleteDead) == result.status = "dead" /\ deleteDead

\* UpdateData without the latency
UpdateData_NoLatency(result) ==
  [status |-> result.status, latency |-> Undefined, anonymity |-> result.anonymity]

\* the argument of updateProxy (lines 103..110)
UpdateData(result) ==
  [status |-> result.status, latency |-> result.latency, anonymity |-> result.anonymity]

\* lines 99..120, in program order: the effects on the outside of one
\* completed outcome that is not collected for deletion
ReportEvents(ev, result, snap) ==
  Append(Append(ev, [Ev("updateProxy", result.id) EXCEPT
                       !.status = result.status, !.latency = result.latency,
                       !.anonymity = result.anonymity]),
         snap)

\* FinishEvents without the emitProgress() of line 139
FinishEvents_NoSnapshot(ev, deleteDead, dIds, snap) ==
  IF deleteDead /\ Len(dIds) > 0
    THEN Append(ev, [Ev("deleteProxies", 0) EXCEPT !.ids = dIds])
    ELSE ev

\* lines 131..139: the effects on the outside of the end of checkAll
FinishEvents(ev, deleteDead, dIds, snap) ==
  Append(IF deleteDead /\ Len(dIds) > 0
           THEN Append(ev, [Ev("deleteProxies", 0) EXCEPT !.ids = dIds])
           ELSE ev,
         snap)

(* ------------------------------ actions ------------------------------- *)

\* stop()
Stop ==
  /\ nStops < MaxStops
  /\ nStops' = nStops + 1
  /\ stopped' = TRUE
  /\ logs' = addLog(logs, LogEntry("stopped", 0, 0, ""))
  /\ IF pc \in {"detect", "running"}
       THEN /\ events' = Append(events, [Ev("stop", 0) EXCEPT
                            !.phase = pc, !.nresults = Len(results),
                            !.queued = [k \in 1..Len(queue) |-> queue[k].id]])
            /\ UNCHANGED pendingStop
       ELSE /\ pendingStop' = TRUE
            /\ UNCHANGED events
  /\ UNCHANGED <<auxVars, options, checked, working, dead, total, deadIds, myIp, pc,
                 proxies, queue, results, workers, store>>

\* checkAll(proxies) up to its first await: lines 66..83 and, when the
\* anonymity check is off, on to line 129
CheckAllBegin(list) ==
  /\ pc = "idle"
  /\ proxies' = list
  /\ LET n == Len(list)
         ev0 == IF pendingStop THEN <<[Ev("stop", 0) EXCEPT !.phase = "before"]>>
                ELSE <<>>
         c == Launch(StartLogs(n), ev0, list,
                     Snapshot(0, n, 0, 0, <<>>, FALSE, NoResult), n, FALSE)
     IN  /\ stopped' = FALSE /\ checked' = 0 /\ working' = 0 /\ dead' = 0
         /\ total' = n /\ deadIds' = <<>> /\ results' = <<>>
         /\ pendingStop' = FALSE
         /\ IF options.checkAnonymity
              THEN /\ pc' = "detect"
                   /\ logs' = addLog(StartLogs(n), LogEntry("detect", 0, 0, ""))
                   /\ events' = Append(ev0, [Ev("ipGet", 0) EXCEPT
                                                  !.timeout = DetectTimeout])
                   /\ queue' = list
                   /\ workers' = [i \in WorkerIds |-> NoWorker]
              ELSE /\ pc' = "running"
                   /\ logs' = c.logs /\ events' = c.events
                   /\ queue' = c.queue /\ workers' = c.workers
  /\ UNCHANGED <<auxVars, options, myIp, store, nStops>>

\* detectMyIp after its await (lines 148..154), then checkAll lines 85..129
DetectReturn(o) ==
  /\ pc = "detect"
  /\ LET ip == CASE o = "origin" -> SelfIp [] o = "empty" -> "" [] OTHER -> myIp
         l1 == CASE o = "origin" -> addLog(logs, LogEntry("myIp", 0, 0, SelfIp))
                 [] o = "empty" -> logs
                 [] OTHER -> addLog(logs, LogEntry("noIp", 0, 0, ""))
         c == Launch(l1, Append(events, [Ev("ipResponse", 0) EXCEPT !.status = o]),
                     queue, Snapshot(checked, total, working, dead, deadIds, FALSE, NoResult),
                     total, stopped)
     IN  /\ myIp' = ip
         /\ pc' = "running"
         /\ logs' = c.logs /\ events' = c.events
         /\ queue' = c.queue /\ workers' = c.workers
  /\ UNCHANGED <<auxVars, options, stopped, checked, working, dead, total, deadIds,
                 proxies, results, store, pendingStop, nStops>>

\* checkProxy after the await of the test request (lines 200..223)
ProbeReturn(i, o) ==
  /\ workers[i].st = "probing"
  /\ LET w == workers[i]
         got == [workers EXCEPT ![i].response = IF o.ok THEN o.status ELSE -1]
         id == w.proxy.id
         ev1 == Append(events, [Ev("response", id) EXCEPT !.status =
                                  IF o.ok THEN "answered" ELSE "failed"])
     IN  IF o.ok
           THEN IF IsWorking(o)
                  THEN LET r == [w.result EXCEPT !.status = "working",
                                                 !.latency = o.latency]
                       IN  IF options.checkAnonymity /\ myIp # ""
                             THEN /\ workers' = [got EXCEPT ![i].st = "echo",
                                                                ![i].result = r]
                                  /\ events' = Append(ev1, [Ev("echoGet", id) EXCEPT
                                                   !.timeout = options.timeout])
                                  /\ logs' = logs
                             ELSE /\ workers' = [got EXCEPT ![i].st = "resolved",
                                      ![i].result = [r EXCEPT !.anonymity = "unknown"]]
                                  /\ events' = ev1
                                  /\ logs' = addLog(logs, LogEntry("ok", id, o.latency, ""))
                  ELSE /\ workers' = [got EXCEPT ![i].st = "resolved"]
                       /\ events' = ev1
                       /\ logs' = addLog(logs, LogEntry("http", id, o.status, ""))
           ELSE LET caught == CheckProxyCatch(w.result)
                IN  /\ workers' = [got EXCEPT ![i].st = "resolved",
                                                  ![i].result = caught.result,
                                                  ![i].threw = caught.threw]
                    /\ events' = ev1
                    /\ logs' = CatchLog(logs, id, "request")
  /\ UNCHANGED <<auxVars, options, stopped, checked, working, dead, total, deadIds, myIp,
                 pc, proxies, queue, results, store, pendingStop, nStops>>

\* checkAnonymity after the await of the echo request, then checkProxy
\* lines 208..209 and 223
EchoReturn(i, e) ==
  /\ workers[i].st = "echo"
  /\ LET w == workers[i]
         grade == checkAnonymity(myIp, e)
     IN  /\ workers' = [workers EXCEPT ![i].st = "resolved",
                                       ![i].result.anonymity = grade]
         /\ events' = Append(events, [Ev("echoResponse", w.proxy.id) EXCEPT
                                        !.status = IF e.ok THEN "answered" ELSE "failed"])
         /\ logs' = addLog(logs, LogEntry("ok", w.proxy.id, w.result.latency, grade))
  /\ UNCHANGED <<auxVars, options, stopped, checked, working, dead, total, deadIds, myIp,
                 pc, proxies, queue, results, store, pendingStop, nStops>>

\* processNext after the await of checkProxy: lines 97..120, then the loop
\* goes round to the next await (lines 92..96) or ends
Report(i) ==
  /\ workers[i].st = "resolved"
  /\ IF workers[i].threw
       THEN /\ workers' = [workers EXCEPT ![i].st = "rejected"]
            /\ UNCHANGED <<results, deadIds, store, checked, working, dead, logs,
                           events, queue>>
       ELSE LET r == workers[i].result
                collect == CollectsDead(r, options.deleteDead)
                dIds == IF collect THEN Append(deadIds, r.id) ELSE deadIds
                n == Count(checked, working, dead, r)
                snap == Snapshot(n.checked, total, n.working, n.dead, dIds, TRUE, r)
                c == TakeNext([queue |-> queue, logs |-> logs,
                               events |-> IF collect THEN Append(events, snap)
                                          ELSE ReportEvents(events, r, snap),
                               workers |-> workers], i, stopped)
            IN  /\ results' = Append(results, r)
                /\ deadIds' = dIds
                /\ store' = IF collect THEN store
                            ELSE updateProxy(store, r.id, UpdateData(r))
                /\ checked' = n.checked /\ working' = n.working /\ dead' = n.dead
                /\ logs' = c.logs /\ events' = c.events
                /\ queue' = c.queue /\ workers' = c.workers
  /\ UNCHANGED <<auxVars, options, stopped, total, myIp, pc, proxies, pendingStop, nStops>>

\* checkAll after await Promise.all (lines 131..141); a rejected processNext
\* rejects Promise.all and with it checkAll
Finish ==
  /\ pc = "running"
  /\ \/ \A i \in WorkerIds : workers[i].st \in {"none", "done"}
     \/ \E i \in WorkerIds : workers[i].st = "rejected"
  /\ IF \E i \in WorkerIds : workers[i].st = "rejected"
       THEN /\ pc' = "rejected"
            /\ UNCHANGED <<logs, store, events>>
       ELSE LET del == options.deleteDead /\ Len(deadIds) > 0
                l1 == IF del
                        THEN addLog(addLog(logs,
                               LogEntry("deleting", 0, Len(deadIds), "")),
                               LogEntry("deleted", 0, Len(deadIds), ""))
                        ELSE logs
            IN  /\ pc' = "returned"
                /\ logs' = addLog(l1, LogEntry("finished", 0, working, ""))
                /\ store' = IF del THEN deleteProxies(store, deadIds) ELSE store
                /\ events' = FinishEvents(events, options.deleteDead, deadIds,
                               Snapshot(checked, total, working, dead, deadIds,
                                        FALSE, NoResult))
  /\ UNCHANGED <<auxVars, options, stopped, checked, working, dead, total, deadIds, myIp,
                 proxies, queue, results, workers, pendingStop, nStops>>

Next ==
  \/ Stop
  \/ \E list \in CandidateLists(store) : CheckAllBegin(list)
  \/ \E o \in DetectOutcomes : DetectReturn(o)
  \/ \E i \in WorkerIds, o \in ProbeOutcomes : ProbeReturn(i, o)
  \/ \E i \in WorkerIds, e \in EchoOutcomes : EchoReturn(i, e)
  \/ \E i \in WorkerIds : Report(i)
  \/ Finish

Spec == Init /\ [][Next]_vars


\* every awaited request eventually returns or fails, and the event loop
\* runs every continuation that is ready
FairSpec ==
  /\ Spec
  /\ WF_vars(\E o \in DetectOutcomes : DetectReturn(o))
  /\ WF_vars(\E i \in WorkerIds, o \in ProbeOutcomes : ProbeReturn(i, o))
  /\ WF_vars(\E i \in WorkerIds, e \in EchoOutcomes : EchoReturn(i, e))
  /\ WF_vars(\E i \in WorkerIds : Report(i))
  /\ WF_vars(Finish)

(* --------------------- one checker, several runs --------------------- *)

\* a checker constructed with the anonymity check on
ReuseInit ==
  /\ Init
  /\ options.checkAnonymity /\ ~options.deleteDead

\* checkAll has returned and its caller calls it again on the same
\* instance: the fields keep what the finished run left in them
CheckAllAgain ==
  /\ pc = "returned"
  /\ reused < MaxReuse
  /\ reused' = reused + 1
  /\ pc' = "idle"
  /\ UNCHANGED <<history, classified, agg, db, listener, flush, ipc, race,
                 pct, imp, view,
                 options, stopped, checked, working,
                 dead, total, logs, deadIds, myIp, proxies, queue, results, workers,
                 store, events, pendingStop, nStops>>

\* the lists handed to the checker that is used again: one stored row, or
\* none
ReuseLists(st) == {l \in CandidateLists(st) : Len(l) <= 1}

ReuseNext ==
  \/ Stop
  \/ \E list \in ReuseLists(store) : CheckAllBegin(list)
  \/ \E o \in DetectOutcomes : DetectReturn(o)
  \/ \E i \in WorkerIds, o \in ProbeOutcomes : ProbeReturn(i, o)
  \/ \E i \in WorkerIds, e \in EchoOutcomes : EchoReturn(i, e)
  \/ \E i \in WorkerIds : Report(i)
  \/ Finish
  \/ CheckAllAgain

ReuseSpec == ReuseInit /\ [][ReuseNext]_vars

(* ------------------------- the log on its own ------------------------ *)

\* a checker whose run produces one log-worthy event after the other
LogInit ==
  /\ Constructed /\ AuxAtRest
  /\ options = [threads |-> 1, deleteDead |-> FALSE, checkAnonymity |-> FALSE,
               timeout |-> 5000]

\* one call of addLog from any of its call sites (stop, checkAll, detectMyIp,
\* checkProxy); the message is told apart by its emission number
AddLog ==
  /\ Len(history) < MaxLogEvents
  /\ LET e == LogEntry("event", Len(history) + 1, 0, "")
     IN  /\ logs' = addLog(logs, e)
         /\ history' = Append(history, e)
  /\ UNCHANGED <<classified, reused, agg, db, listener, flush, ipc, race,
                 pct, imp, view,
                 options, stopped, checked, working, dead, total, deadIds, myIp,
                 pc, proxies, queue, results, workers, store, events, pendingStop,
                 nStops>>

LogNext == AddLog

LogSpec == LogInit /\ [][LogNext]_vars

(* ---------------------- the classifier on its own -------------------- *)

\* the addresses the verifier may have resolved for itself
SelfAddresses == {SelfIp, SelfIp6}

\* entries an echo service may report
HeaderEntries ==
  { [name |-> "Host", value |-> "httpbin.org"],
    [name |-> "User-Agent", value |-> "okhttp via-client"],
    [name |-> "User-Agent", value |-> "axios/1.6.0"],
    [name |-> "Via", value |-> "1.1 proxy"],
    [name |-> "X-Forwarded-For", value |-> SelfIp],
    [name |-> "X-Forwarded-For", value |-> "198.51.100.7"],
    [name |-> "X-Real-Ip", value |-> "2001:db8::9"],
    [name |-> "x-real-ip", value |-> "198.51.100.7"],
    [name |-> "Proxy-Connection", value |-> "keep-alive"],
    [name |-> "Forwarded", value |-> ""],
    [name |-> "X-Via-Cache", value |-> "hit"],
    [name |-> "X-Client", value |-> "203.0.113.99"] }

\* the header objects: up to MaxHeaders entries with distinct names
HeaderObjects ==
  { H \in SUBSET HeaderEntries :
      /\ Cardinality(H) <= MaxHeaders
      /\ \A e, f \in H : e.name = f.name => e = f }

GradeInit ==
  /\ Constructed
  /\ options = [threads |-> 1, deleteDead |-> FALSE, checkAnonymity |-> TRUE,
               timeout |-> 5000]
  /\ history = <<>> /\ reused = 0 /\ agg = NoAgg /\ db = EmptyDb
  /\ SideAtRest
  /\ classified \in [ip : SelfAddresses, headers : HeaderObjects, grade : {"none"}]

\* checkAnonymity after its request returned the header object
Classify ==
  /\ classified.grade = "none"
  /\ classified' = [classified EXCEPT !.grade = Grade(classified.ip, classified.headers)]
  /\ UNCHANGED <<history, reused, agg, db, listener, flush, ipc, race,
                 pct, imp, view,
                 options, stopped, checked, working, dead, total, logs,
                 deadIds, myIp, pc, proxies, queue, results, workers, store, events,
                 pendingStop, nStops>>

GradeNext == Classify

GradeSpec == GradeInit /\ [][GradeNext]_vars

(* -------------------------- source aggregation ---------------------- *)
\* parseFromSources and its parsers, src/src/main/parsers/index.ts 70..259

\* toUpperCase, on the names of transport kinds
Upper(s) ==
  CASE s = "http"   -> "HTTP"
    [] s = "Http"   -> "HTTP"
    [] s = "https"  -> "HTTPS"
    [] s = "socks4" -> "SOCKS4"
    [] s = "socks5" -> "SOCKS5"
    [] OTHER        -> s

\* which parser the url of a source selects (lines 226..234): the HTML
\* table of free-proxy-list.net, the text API of proxyscrape.com, the JSON
\* API of geonode.com, or none
SourceKinds == {"table", "scrape", "geonode", "other"}

RECURSIVE SeqsUpTo(_, _)
SeqsUpTo(S, n) ==
  IF n = 0 THEN {<<>>}
  ELSE SeqsUpTo(S, n - 1) \cup
       {Append(q, x) : q \in {r \in SeqsUpTo(S, n - 1) : Len(r) = n - 1}, x \in S}

SourceLists == SeqsUpTo(SourceKinds, MaxSources)

\* the filters argument: absent, or with a list of types
FilterChoices ==
  { NoFilters,
    [given |-> TRUE, types |-> <<>>],
    [given |-> TRUE, types |-> <<"Http">>],
    [given |-> TRUE, types |-> <<"SOCKS5">>],
    [given |-> TRUE, types |-> <<"https", "socks5">>] }

\* what a provider lists: address, port (0: not a number) and protocol
ListingA == << [ip |-> 1, port |-> 80, proto |-> "http"] >>

ListingB == << [ip |-> 1, port |-> 80, proto |-> "socks5"],
               [ip |-> 2, port |-> 80, proto |-> "https"],
               [ip |-> 3, port |-> 0, proto |-> "http"] >>

\* what a fetch (axios.get) may do: reject, answer with a body that is not
\* of the expected shape, or answer with a listing
Bodies ==
  { [ok |-> FALSE, shaped |-> FALSE, rows |-> <<>>],
    [ok |-> TRUE, shaped |-> FALSE, rows |-> <<>>],
    [ok |-> TRUE, shaped |-> TRUE, rows |-> ListingA],
    [ok |-> TRUE, shaped |-> TRUE, rows |-> ListingB] }

\* a ParsedProxy; from tells the records of different sources apart (they
\* differ in country and anonymity)
Parsed(ip, port, type, from) == [ip |-> ip, port |-> port, type |-> type, from |-> from]

RECURSIVE MapRows(_, _, _, _)
\* the parsers' loops over the rows of a body
MapRows(rows, kind, type, from) ==
  IF rows = <<>> THEN <<>>
  ELSE LET r == Head(rows)
           rest == MapRows(Tail(rows), kind, type, from)
       IN  CASE kind = "table" ->
                  IF r.port # 0
                    THEN <<Parsed(r.ip, r.port,
                                  IF r.proto = "https" THEN "HTTPS" ELSE "HTTP", from)>> \o rest
                    ELSE rest
             [] kind = "scrape" ->
                  IF r.port # 0
                    THEN <<Parsed(r.ip, r.port, Upper(type), from)>> \o rest
                    ELSE rest
             [] OTHER -> <<Parsed(r.ip, r.port, Upper(r.proto), from)>> \o rest

\* one fetch of a parser, inside its try: a rejected fetch or a body of
\* another shape ends in the parser's own catch, or yields no row, and
\* nothing is added
ParseBody(body, kind, type, from) ==
  IF body.ok /\ body.shaped THEN MapRows(body.rows, kind, type, from) ELSE <<>>

\* the types parseProxyScrape fetches (line 146)
ScrapeTypes(filters) ==
  IF filters.given THEN filters.types ELSE <<"http", "socks4", "socks5">>

\* the parser of a source of this kind has a tix-th fetch to make
NeedsFetch(kind, filters, tix) ==
  CASE kind \in {"table", "geonode"} -> tix = 1
    [] kind = "scrape" -> tix <= Len(ScrapeTypes(filters))
    [] OTHER -> FALSE

\* lines 237..241
TypeFilter(ps, filters) ==
  IF filters.given /\ Len(filters.types) > 0
    THEN SelectSeq(ps, LAMBDA q : \E k \in DOMAIN filters.types :
                                   Upper(filters.types[k]) = Upper(q.type))
    ELSE ps

\* the key of the Map, `${ip}:${port}`
Key(q) == <<q.ip, q.port>>

RECURSIVE DedupInto(_, _)
DedupInto(acc, rest) ==
  IF rest = <<>> THEN acc
  ELSE DedupInto(IF \E k \in DOMAIN acc : Key(acc[k]) = Key(Head(rest))
                   THEN acc ELSE Append(acc, Head(rest)),
                 Tail(rest))

\* Dedup that keeps every record
Dedup_None(all) == all

RECURSIVE OverwriteInto(_, _)
OverwriteInto(acc, rest) ==
  IF rest = <<>> THEN acc
  ELSE OverwriteInto(IF \E k \in DOMAIN acc : Key(acc[k]) = Key(Head(rest))
                       THEN [k \in DOMAIN acc |->
                               IF Key(acc[k]) = Key(Head(rest)) THEN Head(rest) ELSE acc[k]]
                       ELSE Append(acc, Head(rest)),
                     Tail(rest))

\* Dedup that keeps the record seen last (unique.set without the has test)
Dedup_LastWins(all) == OverwriteInto(<<>>, all)

\* lines 250..259
Dedup(all) == DedupInto(<<>>, all)

AggEvent(kind, i, name, status, count) ==
  [kind |-> kind, source |-> i, name |-> name, status |-> status, count |-> count]

\* Announce that says nothing
Announce_Silent(ev, i, name) == ev

\* line 220
Announce(ev, i, name) == Append(ev, AggEvent("progress", i, name, "parsing", 0))

\* lines 236..246 for the source at a.idx, whose parser returned the list parsed
\* or threw
Complete(a, parsed, threw) ==
  IF threw
    THEN [a EXCEPT !.events = Append(@, AggEvent("progress", a.idx, a.sources[a.idx], "error", 0)),
                   !.perSource = Append(@, <<>>),
                   !.idx = @ + 1]
    ELSE LET kept == TypeFilter(parsed, a.filters)
         IN  [a EXCEPT !.allProxies = @ \o kept,
                       !.perSource = Append(@, kept),
                       !.events = Append(@, AggEvent("progress", a.idx, a.sources[a.idx],
                                                     "done", Len(kept))),
                       !.idx = @ + 1]

RECURSIVE Advance(_)
\* parseFromSources from the head of its loop to the next await, or to its
\* return
Advance(a) ==
  IF a.idx > Len(a.sources)
    THEN [a EXCEPT !.pc = "returned", !.result = Dedup(a.allProxies)]
    ELSE LET kind == a.sources[a.idx]
             a1 == [a EXCEPT !.events = Announce(@, a.idx, kind),
                             !.part = <<>>, !.tix = 1]
         IN  IF NeedsFetch(kind, a.filters, 1)
               THEN [a1 EXCEPT !.pc = "fetching",
                               !.events = Append(@, AggEvent("fetch", a.idx, kind, "", 0))]
               ELSE Advance(Complete(a1, <<>>, FALSE))

AggInit ==
  /\ Constructed
  /\ options = [threads |-> 1, deleteDead |-> FALSE, checkAnonymity |-> FALSE,
               timeout |-> 5000]
  /\ history = <<>> /\ classified = NoGrade /\ reused = 0 /\ db = EmptyDb
  /\ SideAtRest
  /\ agg \in {[NoAgg EXCEPT !.pc = "idle", !.sources = l, !.filters = f] :
                l \in SourceLists, f \in FilterChoices}

AggUnchanged ==
  UNCHANGED <<history, classified, reused, db, listener, flush, ipc, race,
                 pct, imp, view,
                 options, stopped, checked, working, dead,
              total, logs, deadIds, myIp, pc, proxies, queue, results, workers,
              store, events, pendingStop, nStops>>

\* parseFromSources(sources, filters, proxyForParsing, onProgress) up to its
\* first await
Aggregate ==
  /\ agg.pc = "idle"
  /\ agg' = Advance([agg EXCEPT !.idx = 1])
  /\ AggUnchanged

\* the pending fetch returns: the parser goes on to its next fetch, or
\* returns to parseFromSources, which goes on to the next await or returns
FetchReturn(body) ==
  /\ agg.pc = "fetching"
  /\ LET kind == agg.sources[agg.idx]
         type == IF kind = "scrape" THEN ScrapeTypes(agg.filters)[agg.tix] ELSE ""
         a1 == [agg EXCEPT
                  !.part = @ \o ParseBody(body, kind, type, agg.idx),
                  !.events = Append(@, AggEvent("fetched", agg.idx, kind,
                                 IF ~body.ok THEN "rejected"
                                 ELSE IF ~body.shaped THEN "malformed" ELSE "listing", 0))]
     IN  agg' = IF NeedsFetch(kind, agg.filters, agg.tix + 1)
                  THEN [a1 EXCEPT !.tix = @ + 1,
                                  !.events = Append(@, AggEvent("fetch", agg.idx, kind, "", 0))]
                  ELSE Advance(Complete(a1, a1.part, FALSE))
  /\ AggUnchanged

AggNext ==
  \/ Aggregate
  \/ \E body \in Bodies : FetchReturn(body)

AggSpec == AggInit /\ [][AggNext]_vars

(* ----------------------- the proxies table, by key -------------------- *)
\* src/src/main/parsers/index.ts 299..317 and 436..518

\* the endpoints a caller may hand to insertProxies; port Undefined is a
\* port that is not a number (stored as NULL), type "" a missing type
Insertable ==
  { [ip |-> 1, port |-> 80, type |-> "HTTP"],
    [ip |-> 1, port |-> 80, type |-> "SOCKS5"],
    [ip |-> 2, port |-> 80, type |-> ""],
    [ip |-> 2, port |-> Undefined, type |-> "HTTP"] }

\* the data a caller may hand to updateProxy; Undefined and "undefined"
\* are the properties that are filtered out (lines 478..483)
UpdateChoices ==
  { [status |-> "working", ip |-> Undefined, port |-> Undefined],
    [status |-> "undefined", ip |-> 1, port |-> 80],
    [status |-> "dead", ip |-> 2, port |-> Undefined],
    [status |-> "undefined", ip |-> Undefined, port |-> Undefined] }

\* INSERT without the UNIQUE(ip, port) constraint
InsertOrReplace_Plain(t, q) ==
  IF q.port = Undefined THEN t
  ELSE [t EXCEPT !.rows = @ \cup {[id |-> t.last + 1, ip |-> q.ip, port |-> q.port,
                                  type |-> IF q.type = "" THEN "HTTP" ELSE q.type,
                                  status |-> "unchecked"]},
                 !.last = @ + 1]

\* one INSERT OR REPLACE of insertProxies (lines 441..445) under the schema
\* of lines 299..317: a NULL port fails NOT NULL and the statement throws
\* into the catch; a row with the same (ip, port) is deleted before the
\* new row, with a new id, is inserted
InsertOrReplace(t, q) ==
  IF q.port = Undefined THEN t
  ELSE [t EXCEPT !.rows = {r \in @ : ~(r.ip = q.ip /\ r.port = q.port)}
                          \cup {[id |-> t.last + 1, ip |-> q.ip, port |-> q.port,
                                 type |-> IF q.type = "" THEN "HTTP" ELSE q.type,
                                 status |-> "unchecked"]},
                 !.last = @ + 1]

RECURSIVE insertProxies(_, _)
\* lines 436..454
insertProxies(t, list) ==
  IF list = <<>> THEN t
  ELSE insertProxies(InsertOrReplace(t, Head(list)), Tail(list))

\* updateProxy (lines 476..504) on the table with its key columns: UPDATE
\* proxies SET <the given fields> WHERE id = ?; an update onto the key of
\* another row fails UNIQUE(ip, port), throws, and is caught
UpdateProxyRow(t, id, data) ==
  IF data.status = "undefined" /\ data.ip = Undefined /\ data.port = Undefined
    THEN t
  ELSE LET new(r) == [r EXCEPT !.status = IF data.status # "undefined" THEN data.status ELSE @,
                               !.ip = IF data.ip # Undefined THEN data.ip ELSE @,
                               !.port = IF data.port # Undefined THEN data.port ELSE @]
       IN  IF \E r \in t.rows, o \in t.rows :
                r.id = id /\ o.id # id /\ o.ip = new(r).ip /\ o.port = new(r).port
             THEN t
             ELSE [t EXCEPT !.rows = {IF r.id = id THEN new(r) ELSE r : r \in @}]

\* deleteProxies (lines 507..511) on the table with its key columns
DeleteProxyRows(t, ids) == [t EXCEPT !.rows = {r \in @ : r.id \notin ids}]

\* lines 514..518
clearAllProxies(t) == [t EXCEPT !.rows = {}]

RowKeys(t) == {<<r.ip, r.port>> : r \in t.rows}

\* the call is noted together with the keys stored before it
Called(t, kind, list, new) ==
  [new EXCEPT !.ops = t.ops + 1, !.op = [kind |-> kind, list |-> list],
              !.prevKeys = RowKeys(t)]

DbInit ==
  /\ Constructed
  /\ options = [threads |-> 1, deleteDead |-> FALSE, checkAnonymity |-> FALSE,
               timeout |-> 5000]
  /\ history = <<>> /\ classified = NoGrade /\ reused = 0 /\ agg = NoAgg
  /\ db = EmptyDb
  /\ SideAtRest

DbUnchanged ==
  UNCHANGED <<history, classified, reused, agg, listener, flush, ipc, race,
                 pct, imp, view,
                 options, stopped, checked, working,
              dead, total, logs, deadIds, myIp, pc, proxies, queue, results, workers,
              store, events, pendingStop, nStops>>

InsertProxies(list) ==
  /\ db.ops < MaxDbOps
  /\ db' = Called(db, "insert", list, insertProxies(db, list))
  /\ DbUnchanged

UpdateProxy(id, data) ==
  /\ db.ops < MaxDbOps
  /\ db' = Called(db, "update", <<>>, UpdateProxyRow(db, id, data))
  /\ DbUnchanged

DeleteProxies(ids) ==
  /\ db.ops < MaxDbOps
  /\ db' = Called(db, "delete", <<>>, DeleteProxyRows(db, ids))
  /\ DbUnchanged

ClearAllProxies ==
  /\ db.ops < MaxDbOps
  /\ db' = Called(db, "clear", <<>>, clearAllProxies(db))
  /\ DbUnchanged

DbNext ==
  \/ \E list \in SeqsUpTo(Insertable, MaxInsert) : InsertProxies(list)
  \/ \E id \in 1..db.last, data \in UpdateChoices : UpdateProxy(id, data)
  \/ \E id \in 1..db.last : DeleteProxies({id})
  \/ ClearAllProxies

DbSpec == DbInit /\ [][DbNext]_vars

(* ---------------------- the 'progress' listeners --------------------- *)
\* src/unnamed/part_003 214..216 and checker.ts 157..173: emit calls the
\* listeners synchronously, and what a listener throws leaves emit and
\* emitProgress at the call site

\* a checker with the listener of the 'check-proxies' handler, or with none
ListenerInit ==
  /\ Constructed
  /\ history = <<>> /\ classified = NoGrade /\ reused = 0 /\ agg = NoAgg
  /\ db = EmptyDb
  /\ listener \in {"none", "attached"}
  /\ flush = NoFlush /\ ipc = NoIpc /\ pct = NoPct /\ imp = NoImp /\ view = NoView /\ race = NoRace

\* the attached listener starts to throw: event.sender.send (line 215)
\* once the window it sends to is destroyed
ListenerBreaks ==
  /\ listener = "attached"
  /\ listener' = "throwing"
  /\ UNCHANGED <<history, classified, reused, agg, db, flush, ipc, race,
                 pct, imp, view,
                 options, stopped, checked, working, dead, total, logs, deadIds,
                 myIp, pc, proxies, queue, results, workers, store, events,
                 pendingStop, nStops>>

\* this.emit('progress', ...) of line 158 throws
EmitThrows == listener = "throwing"

\* checkAll without the anonymity check, lines 66..85: the emitProgress()
\* of line 85 throws and checkAll rejects before a worker is started
CheckAllBeginThrows(list) ==
  /\ pc = "idle"
  /\ ~options.checkAnonymity
  /\ EmitThrows
  /\ proxies' = list
  /\ stopped' = FALSE /\ checked' = 0 /\ working' = 0 /\ dead' = 0
  /\ total' = Len(list) /\ deadIds' = <<>> /\ results' = <<>>
  /\ pendingStop' = FALSE
  /\ logs' = StartLogs(Len(list))
  /\ events' = Append(IF pendingStop THEN <<[Ev("stop", 0) EXCEPT !.phase = "before"]>>
                      ELSE <<>>, Ev("emitThrew", 0))
  /\ pc' = "rejected"
  /\ queue' = <<>>
  /\ workers' = [i \in WorkerIds |-> NoWorker]
  /\ UNCHANGED <<auxVars, options, myIp, store, nStops>>

\* detectMyIp after its await, then line 85 throws
DetectReturnThrows(o) ==
  /\ pc = "detect"
  /\ EmitThrows
  /\ myIp' = (CASE o = "origin" -> SelfIp [] o = "empty" -> "" [] OTHER -> myIp)
  /\ logs' = (CASE o = "origin" -> addLog(logs, LogEntry("myIp", 0, 0, SelfIp))
                [] o = "empty" -> logs
                [] OTHER -> addLog(logs, LogEntry("noIp", 0, 0, "")))
  /\ events' = Append(Append(events, [Ev("ipResponse", 0) EXCEPT !.status = o]),
                      Ev("emitThrew", 0))
  /\ pc' = "rejected"
  /\ UNCHANGED <<auxVars, options, stopped, checked, working, dead, total, deadIds,
                 proxies, queue, results, workers, store, pendingStop, nStops>>

\* processNext lines 97..120: the outcome is appended, persisted and
\* counted, then emitProgress(result) throws and processNext rejects
ReportThrows(i) ==
  /\ workers[i].st = "resolved"
  /\ ~workers[i].threw
  /\ EmitThrows
  /\ LET r == workers[i].result
         collect == CollectsDead(r, options.deleteDead)
         n == Count(checked, working, dead, r)
     IN  /\ results' = Append(results, r)
         /\ deadIds' = IF collect THEN Append(deadIds, r.id) ELSE deadIds
         /\ store' = IF collect THEN store ELSE updateProxy(store, r.id, UpdateData(r))
         /\ checked' = n.checked /\ working' = n.working /\ dead' = n.dead
         /\ events' = IF collect THEN Append(events, Ev("emitThrew", r.id))
                      ELSE ReportEvents(events, r, Ev("emitThrew", r.id))
         /\ workers' = [workers EXCEPT ![i].st = "rejected"]
  /\ UNCHANGED <<auxVars, options, stopped, total, myIp, pc, proxies, pendingStop,
                 nStops, logs, queue>>

\* checkAll lines 131..139: the batch deletion is done, then the
\* emitProgress() of line 139 throws and checkAll rejects
FinishThrows ==
  /\ pc = "running"
  /\ \A i \in WorkerIds : workers[i].st \in {"none", "done"}
  /\ EmitThrows
  /\ LET del == options.deleteDead /\ Len(deadIds) > 0
         l1 == IF del
                 THEN addLog(addLog(logs,
                        LogEntry("deleting", 0, Len(deadIds), "")),
                        LogEntry("deleted", 0, Len(deadIds), ""))
                 ELSE logs
     IN  /\ pc' = "rejected"
         /\ logs' = addLog(l1, LogEntry("finished", 0, working, ""))
         /\ store' = IF del THEN deleteProxies(store, deadIds) ELSE store
         /\ events' = FinishEvents(events, options.deleteDead, deadIds, Ev("emitThrew", 0))
  /\ UNCHANGED <<auxVars, options, stopped, checked, working, dead, total, deadIds, myIp,
                 proxies, queue, results, workers, pendingStop, nStops>>

ListenerNext ==
  \/ Stop
  \/ ListenerBreaks
  \/ \E list \in CandidateLists(store) :
       (~EmitThrows \/ options.checkAnonymity) /\ CheckAllBegin(list)
  \/ \E list \in CandidateLists(store) : CheckAllBeginThrows(list)
  \/ \E o \in DetectOutcomes : ~EmitThrows /\ DetectReturn(o)
  \/ \E o \in DetectOutcomes : DetectReturnThrows(o)
  \/ \E i \in WorkerIds, o \in ProbeOutcomes : ProbeReturn(i, o)
  \/ \E i \in WorkerIds, e \in EchoOutcomes : EchoReturn(i, e)
  \/ \E i \in WorkerIds : (~EmitThrows \/ workers[i].threw) /\ Report(i)
  \/ \E i \in WorkerIds : ReportThrows(i)
  \/ (~EmitThrows \/ \E i \in WorkerIds : workers[i].st = "rejected") /\ Finish
  \/ FinishThrows

ListenerSpec == ListenerInit /\ [][ListenerNext]_vars

(* ------------------- one checker, a second longer run ----------------- *)

\* a checker constructed with the anonymity check off
RepeatInit ==
  /\ Init
  /\ ~options.checkAnonymity

\* the lists handed to the checker: one stored row or none for its first
\* run, up to MaxProxies for the run after it
RepeatLists(st) == {l \in CandidateLists(st) : reused = 0 => Len(l) <= 1}

RepeatNext ==
  \/ Stop
  \/ \E list \in RepeatLists(store) : CheckAllBegin(list)
  \/ \E i \in WorkerIds, o \in ProbeOutcomes : ProbeReturn(i, o)
  \/ \E i \in WorkerIds : Report(i)
  \/ Finish
  \/ CheckAllAgain

RepeatSpec == RepeatInit /\ [][RepeatNext]_vars

(* ------------------------ the buffered writes ------------------------ *)
\* src/src/main/parsers/index.ts 369..374 and 456..504

\* saveDatabase: the table as it is now goes to the file
saveDatabase(f) == [f EXCEPT !.unflushed = 0]

\* debouncedSave (lines 464..470): a pending timer is cleared and a new one
\* is set
debouncedSave(f) == [f EXCEPT !.saveTimeout = TRUE]

\* FlushNow that waits for one update more
FlushNow_Late(p) == p > FlushEvery

\* line 495
FlushNow(p) == p >= FlushEvery

\* updateProxy from the UPDATE statement on (lines 492..500): applied is
\* FALSE when db.run throws into the catch, or there was no field to write
BufferUpdate(f, applied) ==
  IF ~applied THEN f
  ELSE LET g == [f EXCEPT !.pendingUpdates = @ + 1, !.unflushed = @ + 1]
       IN  IF FlushNow(g.pendingUpdates)
             THEN [saveDatabase(g) EXCEPT !.pendingUpdates = 0]
             ELSE debouncedSave(g)

FlushInit ==
  /\ Constructed
  /\ options = [threads |-> 1, deleteDead |-> FALSE, checkAnonymity |-> FALSE,
               timeout |-> 5000]
  /\ history = <<>> /\ classified = NoGrade /\ reused = 0 /\ agg = NoAgg
  /\ db = EmptyDb
  /\ listener = "attached" /\ flush = NoFlush /\ ipc = NoIpc /\ pct = NoPct /\ imp = NoImp /\ view = NoView /\ race = NoRace

FlushUnchanged ==
  UNCHANGED <<history, classified, reused, agg, db, listener, ipc, race,
              pct, imp, view,
                 options, stopped, checked, working, dead, total, logs, deadIds, myIp,
              pc, proxies, queue, results, workers, store, events, pendingStop,
              nStops>>

\* one call of updateProxy
BufferedUpdate(applied) ==
  /\ flush.calls < MaxUpdates
  /\ flush' = [BufferUpdate(flush, applied) EXCEPT !.calls = @ + 1]
  /\ FlushUnchanged

\* the timer set by debouncedSave fires (lines 466..469)
SaveTimerFires ==
  /\ flush.saveTimeout
  /\ flush' = [saveDatabase(flush) EXCEPT !.pendingUpdates = 0, !.saveTimeout = FALSE]
  /\ FlushUnchanged

FlushNext ==
  \/ \E applied \in BOOLEAN : BufferedUpdate(applied)
  \/ SaveTimerFires

FlushSpec == FlushInit /\ [][FlushNext]_vars

\* a timer that is set fires once the process is idle
FlushFairSpec == FlushSpec /\ WF_vars(SaveTimerFires)

(* ------------------- the handlers around the checker ------------------ *)
\* src/unnamed/part_003 132..133 and 201..231; a run is the checker that
\* one 'check-proxies' invocation made, with its cancellation flag, active
\* until its checkAll has returned; checker holds the number of a run, 0
\* for null

IpcInit ==
  /\ Constructed
  /\ options = [threads |-> 1, deleteDead |-> FALSE, checkAnonymity |-> FALSE,
               timeout |-> 5000]
  /\ history = <<>> /\ classified = NoGrade /\ reused = 0 /\ agg = NoAgg
  /\ db = EmptyDb
  /\ listener = "attached" /\ flush = NoFlush /\ ipc = NoIpc /\ pct = NoPct /\ imp = NoImp /\ view = NoView /\ race = NoRace

IpcUnchanged ==
  UNCHANGED <<history, classified, reused, agg, db, listener, flush, race,
              pct, imp, view,
                 options, stopped, checked, working, dead, total, logs, deadIds, myIp,
              pc, proxies, queue, results, workers, store, events, pendingStop,
              nStops>>

\* the runs whose checkAll has not returned
ActiveRuns(c) == {r \in DOMAIN c.runs : c.runs[r].active}

\* the active run that was started last, 0 when none is active
NewestActive(c) ==
  IF ActiveRuns(c) = {} THEN 0
  ELSE CHOOSE r \in ActiveRuns(c) : \A o \in ActiveRuns(c) : o <= r

\* the 'check-proxies' handler up to await checker.checkAll(proxies)
\* (lines 201..218): the new checker replaces whatever checker held, and
\* checkAll clears its flag
CheckProxies ==
  /\ Len(ipc.runs) < MaxRuns
  /\ ipc' = [ipc EXCEPT !.runs = Append(@, [active |-> TRUE, stopped |-> FALSE]),
                        !.checker = Len(ipc.runs) + 1]
  /\ IpcUnchanged

\* the 'check-proxies' handler after its await (lines 218..221): checker
\* is set to null, whichever run it holds
CheckAllReturns(r) ==
  /\ r \in ActiveRuns(ipc)
  /\ ipc' = [ipc EXCEPT !.runs[r].active = FALSE, !.checker = 0]
  /\ IpcUnchanged

\* the 'stop-checking' handler (lines 225..231)
StopChecking ==
  /\ LET noted == [ipc EXCEPT !.stop = [seen |-> TRUE, newest |-> NewestActive(ipc),
                                        found |-> ipc.checker]]
     IN  ipc' = IF ipc.checker # 0
                  THEN [noted EXCEPT !.runs[ipc.checker].stopped = TRUE, !.checker = 0]
                  ELSE noted
  /\ IpcUnchanged

IpcNext ==
  \/ CheckProxies
  \/ \E r \in 1..MaxRuns : CheckAllReturns(r)
  \/ StopChecking

IpcSpec == IpcInit /\ [][IpcNext]_vars

(* ------------------ a run and an import on one table ----------------- *)
\* src/src/main/parsers/index.ts 436..511 and checker.ts 99..111, 132..134:
\* the run writes by the ids it was handed when it began

\* what the run was handed for a row of the table
HeldOf(r) == [id |-> r.id, ip |-> r.ip, port |-> r.port]

\* the table after a first import, and a run that was handed all its rows
RaceInit ==
  /\ Constructed
  /\ options = [threads |-> 1, deleteDead |-> FALSE, checkAnonymity |-> FALSE,
               timeout |-> 5000]
  /\ history = <<>> /\ classified = NoGrade /\ reused = 0 /\ agg = NoAgg
  /\ listener = "attached" /\ flush = NoFlush /\ ipc = NoIpc /\ pct = NoPct /\ imp = NoImp /\ view = NoView
  /\ \E list \in SeqsUpTo(Insertable, MaxInsert) :
       /\ db = insertProxies(EmptyDb, list)
       /\ db.rows # {}
       /\ race = [NoRace EXCEPT !.held = {HeldOf(r) : r \in db.rows}]

RaceUnchanged ==
  UNCHANGED <<history, classified, reused, agg, listener, flush, ipc,
              pct, imp, view,
                 options, stopped, checked, working, dead, total, logs, deadIds, myIp,
              pc, proxies, queue, results, workers, store, events, pendingStop,
              nStops>>

\* insertProxies(list), from an aggregation or an import, while the run is
\* in progress
ImportDuringRun(list) ==
  /\ db.ops < MaxDbOps
  /\ db' = Called(db, "insert", list, insertProxies(db, list))
  /\ race' = [race EXCEPT !.last = NoRace.last]
  /\ RaceUnchanged

\* processNext lines 103..110: updateProxy(result.id, {status, ...}) for a
\* row the run holds
RunUpdates(h, status) ==
  /\ db.ops < MaxDbOps
  /\ h \in race.held
  /\ db' = Called(db, "update", <<>>,
                  UpdateProxyRow(db, h.id, [status |-> status, ip |-> Undefined,
                                            port |-> Undefined]))
  /\ race' = [race EXCEPT !.last = [kind |-> "update", id |-> h.id, ip |-> h.ip,
                                    port |-> h.port, status |-> status]]
  /\ RaceUnchanged

\* checkAll line 134: deleteProxies(deadIds) with the id of a row the run
\* holds
RunDeletes(h) ==
  /\ db.ops < MaxDbOps
  /\ h \in race.held
  /\ db' = Called(db, "delete", <<>>, DeleteProxyRows(db, {h.id}))
  /\ race' = [race EXCEPT !.last = [kind |-> "delete", id |-> h.id, ip |-> h.ip,
                                    port |-> h.port, status |-> "dead"]]
  /\ RaceUnchanged

RaceNext ==
  \/ \E list \in SeqsUpTo(Insertable, MaxInsert) : ImportDuringRun(list)
  \/ \E h \in race.held, status \in {"working", "dead"} : RunUpdates(h, status)
  \/ \E h \in race.held : RunDeletes(h)

RaceSpec == RaceInit /\ [][RaceNext]_vars

(* ----------------------- the percent on its own ---------------------- *)
\* checker.ts line 164

\* the fields of a checker at a call of emitProgress: checked of total
PercentInit ==
  /\ Constructed
  /\ options = [threads |-> 1, deleteDead |-> FALSE, checkAnonymity |-> FALSE,
               timeout |-> 5000]
  /\ history = <<>> /\ classified = NoGrade /\ reused = 0 /\ agg = NoAgg
  /\ db = EmptyDb
  /\ listener = "attached" /\ flush = NoFlush /\ ipc = NoIpc /\ race = NoRace
  /\ imp = NoImp /\ view = NoView
  /\ pct \in {[NoPct EXCEPT !.checked = c, !.total = t] :
                c \in 0..MaxTotal, t \in 0..MaxTotal}
  /\ pct.checked <= pct.total

\* emitProgress computes the percent of its snapshot
EmitPercent ==
  /\ pct.percent = Undefined
  /\ pct' = [pct EXCEPT !.percent = Percent(pct.checked, pct.total)]
  /\ UNCHANGED <<history, classified, reused, agg, db, listener, flush, ipc, race,
                 imp, view, options, stopped, checked, working, dead, total, logs,
                 deadIds, myIp, pc, proxies, queue, results, workers, store, events,
                 pendingStop, nStops>>

PercentNext == EmitPercent

PercentSpec == PercentInit /\ [][PercentNext]_vars

(* ------------- the file importers, the normalizers, the text export ------ *)

\* A text is a sequence of atoms. The delimiters the parsers look for are
\* atoms of their own; every other atom is a run of characters that holds no
\* colon, at sign, comma, white space or line break.
Colon == ":"
AtSign == "@"
Slashes == "//"
Space == " "
Newline == "\n"
Comma == ","
Hash == "#"

\* Number.NaN, the result of parseInt on a text that starts with no number
NaN == -1000000

\* how many lines a text, and how many entries a listing, holds at most
MaxLines == 2

\* String.indexOf(d, from): the first position of d at or after from, 0 if none
RECURSIVE IndexFrom(_, _, _)
IndexFrom(s, d, from) ==
  IF from > Len(s) THEN 0
  ELSE IF s[from] = d THEN from
  ELSE IndexFrom(s, d, from + 1)

\* String.split(d)
RECURSIVE split(_, _)
split(s, d) ==
  LET i == IndexFrom(s, d, 1)
  IN IF i = 0 THEN <<s>>
     ELSE <<SubSeq(s, 1, i - 1)>> \o split(SubSeq(s, i + 1, Len(s)), d)

\* Array.join(d)
RECURSIVE join(_, _)
join(parts, d) ==
  IF parts = <<>> THEN <<>>
  ELSE IF Len(parts) = 1 THEN parts[1]
  ELSE parts[1] \o <<d>> \o join(Tail(parts), d)

\* String.trim()
RECURSIVE trimStart(_)
trimStart(s) == IF s # <<>> /\ Head(s) = Space THEN trimStart(Tail(s)) ELSE s

RECURSIVE trimEnd(_)
trimEnd(s) ==
  IF s # <<>> /\ s[Len(s)] = Space THEN trimEnd(SubSeq(s, 1, Len(s) - 1)) ELSE s

trim(s) == trimEnd(trimStart(s))

\* the run of decimal digits an atom starts with, as a number (what \d+
\* matches at the start of the atom); NaN when it starts with no digit
DigitRun(a) ==
  CASE a = "8080"  -> 8080
    [] a = "1"     -> 1
    [] a = "65535" -> 65535
    [] a = "0"     -> 0
    [] a = "65536" -> 65536
    [] a = "80x"   -> 80
    [] a = "80"    -> 80
    [] OTHER       -> NaN

\* parseInt(text): leading white space skipped, an optional sign, then the
\* digits the text starts with; what follows them is ignored; NaN when no
\* digit is there (also for undefined, the empty text here)
parseInt(s) ==
  LET t == trimStart(s)
  IN IF t = <<>> THEN NaN
     ELSE IF t[1] = "-5" THEN -5
     ELSE DigitRun(t[1])

\* Number -> text, as in a template literal
ToText(n) ==
  CASE n = 1     -> "1"
    [] n = 8080  -> "8080"
    [] n = 65535 -> "65535"
    [] n = 0     -> "0"
    [] n = -5    -> "-5"
    [] n = 65536 -> "65536"
    [] n = 80    -> "80"
    [] OTHER     -> "NaN"

\* the characters of the words that name a scheme or a type
Chars(w) ==
  CASE w = "http"   -> <<"h", "t", "t", "p">>
    [] w = "https"  -> <<"h", "t", "t", "p", "s">>
    [] w = "socks"  -> <<"s", "o", "c", "k", "s">>
    [] w = "socks4" -> <<"s", "o", "c", "k", "s", "4">>
    [] w = "socks5" -> <<"s", "o", "c", "k", "s", "5">>
    [] w = "Socks5" -> <<"S", "o", "c", "k", "s", "5">>
    [] w = "HTTP"   -> <<"H", "T", "T", "P">>
    [] w = "HTTPS"  -> <<"H", "T", "T", "P", "S">>
    [] w = "SOCKS"  -> <<"S", "O", "C", "K", "S">>
    [] w = "SOCKS4" -> <<"S", "O", "C", "K", "S", "4">>
    [] w = "SOCKS5" -> <<"S", "O", "C", "K", "S", "5">>
    [] OTHER        -> <<w>>

UpperChar(c) ==
  CASE c = "h" -> "H" [] c = "t" -> "T" [] c = "p" -> "P" [] c = "s" -> "S"
    [] c = "o" -> "O" [] c = "c" -> "C" [] c = "k" -> "K" [] OTHER -> c

LowerChar(c) ==
  CASE c = "H" -> "h" [] c = "T" -> "t" [] c = "P" -> "p" [] c = "S" -> "s"
    [] c = "O" -> "o" [] c = "C" -> "c" [] c = "K" -> "k" [] OTHER -> c

\* String.toUpperCase / toLowerCase, character by character
toUpperCase(cs) == [i \in 1..Len(cs) |-> UpperChar(cs[i])]
toLowerCase(cs) == [i \in 1..Len(cs) |-> LowerChar(cs[i])]

\* the first position where pat occurs in cs, 0 if nowhere
RECURSIVE FindFrom(_, _, _)
FindFrom(cs, pat, i) ==
  IF i + Len(pat) - 1 > Len(cs) THEN 0
  ELSE IF SubSeq(cs, i, i + Len(pat) - 1) = pat THEN i
  ELSE FindFrom(cs, pat, i + 1)

\* String.replace(pat, rep) with a string pattern: the FIRST occurrence only
replace(cs, pat, rep) ==
  LET i == FindFrom(cs, pat, 1)
  IN IF i = 0 THEN cs
     ELSE SubSeq(cs, 1, i - 1) \o rep \o SubSeq(cs, i + Len(pat), Len(cs))

\* the schemes the URI pattern of parseLine admits: (https?|socks[45]?), /i
UriSchemes == {Chars("http"), Chars("https"), Chars("socks"),
               Chars("socks4"), Chars("socks5")}

\* an imported or normalized endpoint; an absent (undefined) or empty
\* username or password is the empty text, both are falsy
Endpoint(ip, port, type, user, pass) ==
  [ip |-> ip, port |-> port, type |-> type, username |-> user, password |-> pass]

\* isValidIp (lines 112..123): four groups of digits, each at most 255, or
\* a domain of three or more letters, digits, dots, dashes and underscores
\* that starts and ends with a letter or digit. A text of several atoms
\* holds a colon, an at sign, a comma or white space and is neither.
isValidIp(ip) ==
  /\ Len(ip) = 1
  /\ CASE ip[1] = "10.0.0.1"          -> TRUE
       [] ip[1] = "proxy.example.com" -> TRUE
       [] ip[1] = "999.0.0.1"         -> FALSE
       [] ip[1] \in {"http", "https", "socks", "socks4", "socks5", "Socks5"} -> TRUE
       [] OTHER                       -> FALSE

\* ([^:]+):(\d+) at the start of r: the atoms before the first colon, not
\* empty, then the colon, then an atom that starts with a digit
HostPortMatch(r) ==
  LET h == IndexFrom(r, Colon, 1)
  IN h > 1 /\ Len(r) > h /\ DigitRun(r[h + 1]) # NaN

\* the match of the URI pattern of parseLine (line 73),
\*   ^(https?|socks[45]?):\/\/(?:([^:]+):([^@]+)@)?([^:]+):(\d+)   /i
\* on a line: the user is what precedes the first colon, the password what
\* lies between that colon and the first at sign after it, and the group of
\* both is given up when the rest does not match with it
uriMatch(line) ==
  LET none == [matched |-> FALSE, protocol |-> <<>>, user |-> <<>>, pass |-> <<>>,
               ip |-> <<>>, port |-> <<>>]
  IN IF ~ ( /\ Len(line) >= 3
            /\ toLowerCase(Chars(line[1])) \in UriSchemes
            /\ line[2] = Colon
            /\ line[3] = Slashes )
     THEN none
     ELSE
       LET r == SubSeq(line, 4, Len(line))
           c == IndexFrom(r, Colon, 1)
           a == IF c = 0 THEN 0 ELSE IndexFrom(r, AtSign, c + 1)
           r2 == SubSeq(r, a + 1, Len(r))
           withCreds == c > 1 /\ a > c + 1 /\ HostPortMatch(r2)
           hp == IF withCreds THEN r2 ELSE r
           h == IndexFrom(hp, Colon, 1)
       IN IF withCreds \/ HostPortMatch(r)
          THEN [matched |-> TRUE,
                protocol |-> Chars(line[1]),
                user |-> IF withCreds THEN SubSeq(r, 1, c - 1) ELSE <<>>,
                pass |-> IF withCreds THEN SubSeq(r, c + 1, a - 1) ELSE <<>>,
                ip |-> SubSeq(hp, 1, h - 1),
                port |-> <<ToText(DigitRun(hp[h + 1]))>>]
          ELSE none

\* parseLine (lines 71..107): the endpoint of one trimmed line, as a list of
\* one, or the empty list for null
parseLine(line) ==
  LET m == uriMatch(line)
      parts == split(line, Colon)
  IN IF m.matched
     THEN <<Endpoint(m.ip, parseInt(m.port),
                     replace(toUpperCase(m.protocol), Chars("SOCKS"), Chars("SOCKS5")),
                     m.user, m.pass)>>
     ELSE IF Len(parts) >= 2
     THEN LET ip == trim(parts[1])
              port == parseInt(trim(parts[2]))
          IN IF ~isValidIp(ip) \/ port = NaN \/ port < 1 \/ port > 65535
             THEN <<>>
             ELSE <<Endpoint(ip, port, Chars("HTTP"),
                             IF Len(parts) >= 4 THEN trim(parts[3]) ELSE <<>>,
                             IF Len(parts) >= 4 THEN trim(parts[4]) ELSE <<>>)>>
     ELSE <<>>

\* the loop of parseTxt over the lines (lines 55..63)
RECURSIVE parseLines(_)
parseLines(lines) ==
  IF lines = <<>> THEN <<>>
  ELSE LET trimmed == trim(Head(lines))
       IN IF trimmed = <<>> \/ trimmed[1] = Hash
          THEN parseLines(Tail(lines))
          ELSE parseLine(trimmed) \o parseLines(Tail(lines))

\* parseTxt (lines 51..66)
parseTxt(content) == parseLines(split(content, Newline))

\* the loop of parseCsv (lines 160..182) over the lines of a file without a
\* header line: the address is column 0, the port column 1, no column of
\* type, user or password
RECURSIVE parseCsvRows(_)
parseCsvRows(lines) ==
  IF lines = <<>> THEN <<>>
  ELSE LET raw == split(Head(lines), Comma)
           cols == [i \in 1..Len(raw) |-> trim(raw[i])]
           ip == cols[1]
           port == parseInt(IF Len(cols) >= 2 THEN cols[2] ELSE <<>>)
       IN IF ip = <<>> \/ port = NaN
          THEN parseCsvRows(Tail(lines))
          ELSE <<Endpoint(ip, port, Chars("HTTP"), <<>>, <<>>)>>
               \o parseCsvRows(Tail(lines))

\* parseCsv (lines 129..185): the lines that are not blank
parseCsv(content) ==
  parseCsvRows(SelectSeq(split(content, Newline), LAMBDA l : trim(l) # <<>>))

\* a value of JSON is truthy unless it is the number 0, the empty string,
\* null or absent; a port is a number or a string
Truthy(v) == IF v.kind = "number" THEN parseInt(<<v.text>>) # 0 ELSE v.text # ""

\* parseJson (lines 191..209) on the array of items
RECURSIVE parseJson(_)
parseJson(items) ==
  IF items = <<>> THEN <<>>
  ELSE LET item == Head(items)
       IN IF item.ip # "" /\ Truthy(item.port)
          THEN <<Endpoint(<<item.ip>>, parseInt(<<item.port.text>>), Chars("HTTP"),
                          <<>>, <<>>)>> \o parseJson(Tail(items))
          ELSE parseJson(Tail(items))

\* the rows of parseFreeProxyList (index.ts lines 78..98), each row with its
\* seven cells or more
RECURSIVE parseFreeProxyList(_)
parseFreeProxyList(rows) ==
  IF rows = <<>> THEN <<>>
  ELSE LET row == Head(rows)
           ip == trim(row.ip)
           port == parseInt(trim(row.port))
       IN IF ip # <<>> /\ port # NaN /\ port # 0
          THEN <<Endpoint(ip, port, IF row.https THEN Chars("HTTPS") ELSE Chars("HTTP"),
                          <<>>, <<>>)>> \o parseFreeProxyList(Tail(rows))
          ELSE parseFreeProxyList(Tail(rows))

\* the lines of parseProxyListDownload and parseProxyScrape for one type
\* (index.ts lines 120..131 and 154..165)
RECURSIVE parseProxyLines(_, _)
parseProxyLines(lines, type) ==
  IF lines = <<>> THEN <<>>
  ELSE LET parts == split(trim(Head(lines)), Colon)
           ip == parts[1]
           port == parseInt(IF Len(parts) >= 2 THEN parts[2] ELSE <<>>)
       IN IF ip # <<>> /\ port # NaN /\ port # 0
          THEN <<Endpoint(ip, port, toUpperCase(Chars(type)), <<>>, <<>>)>>
               \o parseProxyLines(Tail(lines), type)
          ELSE parseProxyLines(Tail(lines), type)

parseProxyScrape(content, type) == parseProxyLines(split(content, Newline), type)

\* the items of parseGeoNode (index.ts lines 189..197): every item is pushed
RECURSIVE parseGeoNode(_)
parseGeoNode(items) ==
  IF items = <<>> THEN <<>>
  ELSE <<Endpoint(<<Head(items).ip>>, parseInt(<<Head(items).port.text>>),
                  toUpperCase(Chars(Head(items).protocol)), <<>>, <<>>)>>
       \o parseGeoNode(Tail(items))

\* exportToTxt (exporter.ts lines 74..81)
exportToTxt(ps) ==
  join([i \in 1..Len(ps) |->
          IF ps[i].username # <<>> /\ ps[i].password # <<>>
          THEN ps[i].ip \o <<Colon, ToText(ps[i].port), Colon>> \o ps[i].username
               \o <<Colon>> \o ps[i].password
          ELSE ps[i].ip \o <<Colon, ToText(ps[i].port)>>],
       Newline)

\* ---- the inputs of the importers, the normalizers and the export ----

Hosts == {"10.0.0.1", "proxy.example.com"}

\* a dotted address with a group above 255
BadHost == "999.0.0.1"

\* the port texts of a listing: in range, the two ends of the range, zero,
\* negative, above the range, not a number, a number followed by a letter
PortTexts == {"8080", "1", "65535", "0", "-5", "65536", "abc", "80x"}

\* the ports of stored endpoints
Ports == {1, 8080, 65535}

SchemeWords == {"http", "https", "socks", "socks4", "socks5", "Socks5"}

\* user:pass@ of a URI line: absent, plain, a password that holds a colon
UriCreds == {<<>>, <<"user", Colon, "pw", AtSign>>,
             <<"user", Colon, "p", Colon, "q", AtSign>>}

UriLines ==
  { <<s, Colon, Slashes>> \o cr \o <<h, Colon, p>> :
      s \in SchemeWords, cr \in UriCreds, h \in Hosts, p \in PortTexts }

PlainTails == {<<>>, <<Colon, "user", Colon, "pw">>, <<Colon, "user">>,
               <<Colon, "user", Colon, "pw", Space>>}

PlainLines ==
  { lead \o <<h, Colon, p>> \o tail :
      lead \in {<<>>, <<Space>>}, h \in Hosts \cup {BadHost}, p \in PortTexts,
      tail \in PlainTails }

\* a blank line, a comment, a line without a port
OtherLines == {<<>>, <<Hash, "note">>, <<"10.0.0.1">>}

SampleLines == {<<"10.0.0.1", Colon, "8080">>, <<Hash, "note">>,
                <<"socks5", Colon, Slashes, "10.0.0.1", Colon, "0">>}

\* the contents of a .txt file: one line, or up to MaxLines sample lines
TxtContents ==
  UriLines \cup PlainLines \cup OtherLines
  \cup {join(ls, Newline) : ls \in SeqsUpTo(SampleLines, MaxLines) \ {<<>>}}

\* a username or a password of a stored endpoint: absent, plain, with a
\* colon inside, with a space at the end (the URI pattern of parseLine and
\* parseJson accept both)
Creds == {<<>>, <<"user">>, <<"pw">>, <<"p", Colon, "q">>, <<"pw", Space>>}

StoredEndpoints ==
  { Endpoint(<<h>>, n, Chars("HTTP"), u, p) :
      h \in Hosts, n \in Ports, u \in Creds, p \in Creds }

SampleEndpoints ==
  { Endpoint(<<"10.0.0.1">>, 8080, Chars("HTTP"), <<>>, <<>>),
    Endpoint(<<"proxy.example.com">>, 1, Chars("HTTP"), <<"user">>, <<"pw">>) }

\* the lists handed to exportToTxt
ExportLists ==
  {<<e>> : e \in StoredEndpoints}
  \cup (SeqsUpTo(SampleEndpoints, MaxLines) \ {<<>>})

CsvLines ==
  { <<h, Comma>> \o sp \o <<p>> : h \in Hosts, sp \in {<<>>, <<Space>>}, p \in PortTexts }
  \cup {<<"10.0.0.1">>}

CsvContents ==
  CsvLines
  \cup {join(ls, Newline) :
          ls \in SeqsUpTo({<<"10.0.0.1", Comma, "8080">>, <<"10.0.0.1", Comma, "0">>},
                          MaxLines) \ {<<>>}}

\* the port of an item of JSON: a number or a string
JsonPorts ==
  {[kind |-> "number", text |-> t] : t \in {"8080", "0", "-5", "65536"}}
  \cup {[kind |-> "string", text |-> t] : t \in PortTexts \cup {""}}

JsonItems == {[ip |-> h, port |-> p, protocol |-> "http"] : h \in Hosts \cup {""}, p \in JsonPorts}

GeoItems ==
  {[ip |-> h, port |-> p, protocol |-> pr] :
     h \in Hosts, p \in JsonPorts, pr \in {"http", "socks5"}}

TableRows ==
  {[ip |-> <<h>>, port |-> sp \o <<p>>, https |-> s] :
     h \in Hosts, sp \in {<<>>, <<Space>>}, p \in PortTexts, s \in BOOLEAN}

ScrapeContents ==
  { <<h, Colon, p>> : h \in Hosts, p \in PortTexts }
  \cup {<<"10.0.0.1">>}
  \cup {join(ls, Newline) :
          ls \in SeqsUpTo({<<"10.0.0.1", Colon, "8080">>, <<"10.0.0.1", Colon, "-5">>},
                          MaxLines) \ {<<>>}}

\* a call of fn on input, not yet run
Call(fn, input) ==
  [fn |-> fn, stage |-> "call", input |-> input, output |-> <<>>, origin |-> <<>>]

\* the call returns output
Return(output) == [imp EXCEPT !.stage = "return", !.output = output]

\* one call of an importer, of a normalizer or of the text export
ImportInit ==
  /\ Constructed
  /\ options = [threads |-> 1, deleteDead |-> FALSE, checkAnonymity |-> FALSE,
               timeout |-> 5000]
  /\ history = <<>> /\ classified = NoGrade /\ reused = 0 /\ agg = NoAgg
  /\ db = EmptyDb
  /\ listener = "attached" /\ flush = NoFlush /\ ipc = NoIpc /\ race = NoRace
  /\ pct = NoPct /\ view = NoView
  /\ \/ imp \in {Call("parseTxt", c) : c \in TxtContents}
     \/ imp \in {Call("exportToTxt", l) : l \in ExportLists}
     \/ imp \in {Call("parseCsv", c) : c \in CsvContents}
     \/ imp \in {Call("parseJson", l) : l \in SeqsUpTo(JsonItems, 1) \ {<<>>}}
     \/ imp \in {Call("parseFreeProxyList", l) : l \in SeqsUpTo(TableRows, 1) \ {<<>>}}
     \/ imp \in {Call("parseProxyScrape", [content |-> c, type |-> t]) :
                   c \in ScrapeContents, t \in {"http", "socks4", "socks5"}}
     \/ imp \in {Call("parseGeoNode", l) : l \in SeqsUpTo(GeoItems, 1) \ {<<>>}}

\* exportToTxt writes the list; the text it wrote is then imported
ExportTxt ==
  /\ imp.fn = "exportToTxt" /\ imp.stage = "call"
  /\ imp' = [Call("parseTxt", exportToTxt(imp.input)) EXCEPT !.origin = imp.input]
  /\ UNCHANGED <<history, classified, reused, agg, db, listener, flush, ipc, race,
                 pct, view, options, stopped, checked, working, dead, total, logs,
                 deadIds, myIp, pc, proxies, queue, results, workers, store, events,
                 pendingStop, nStops>>

\* importProxiesFromFile on a .txt file
ImportTxt ==
  /\ imp.fn = "parseTxt" /\ imp.stage = "call"
  /\ imp' = Return(parseTxt(imp.input))
  /\ UNCHANGED <<history, classified, reused, agg, db, listener, flush, ipc, race,
                 pct, view, options, stopped, checked, working, dead, total, logs,
                 deadIds, myIp, pc, proxies, queue, results, workers, store, events,
                 pendingStop, nStops>>

\* importProxiesFromFile on a .csv file
ImportCsv ==
  /\ imp.fn = "parseCsv" /\ imp.stage = "call"
  /\ imp' = Return(parseCsv(imp.input))
  /\ UNCHANGED <<history, classified, reused, agg, db, listener, flush, ipc, race,
                 pct, view, options, stopped, checked, working, dead, total, logs,
                 deadIds, myIp, pc, proxies, queue, results, workers, store, events,
                 pendingStop, nStops>>

\* importProxiesFromFile on a .json file
ImportJson ==
  /\ imp.fn = "parseJson" /\ imp.stage = "call"
  /\ imp' = Return(parseJson(imp.input))
  /\ UNCHANGED <<history, classified, reused, agg, db, listener, flush, ipc, race,
                 pct, view, options, stopped, checked, working, dead, total, logs,
                 deadIds, myIp, pc, proxies, queue, results, workers, store, events,
                 pendingStop, nStops>>

\* the normalizer of the HTML table
NormalizeTable ==
  /\ imp.fn = "parseFreeProxyList" /\ imp.stage = "call"
  /\ imp' = Return(parseFreeProxyList(imp.input))
  /\ UNCHANGED <<history, classified, reused, agg, db, listener, flush, ipc, race,
                 pct, view, options, stopped, checked, working, dead, total, logs,
                 deadIds, myIp, pc, proxies, queue, results, workers, store, events,
                 pendingStop, nStops>>

\* the normalizer of the IP:PORT text listings
NormalizeText ==
  /\ imp.fn = "parseProxyScrape" /\ imp.stage = "call"
  /\ imp' = Return(parseProxyScrape(imp.input.content, imp.input.type))
  /\ UNCHANGED <<history, classified, reused, agg, db, listener, flush, ipc, race,
                 pct, view, options, stopped, checked, working, dead, total, logs,
                 deadIds, myIp, pc, proxies, queue, results, workers, store, events,
                 pendingStop, nStops>>

\* the normalizer of the JSON listing
NormalizeGeoNode ==
  /\ imp.fn = "parseGeoNode" /\ imp.stage = "call"
  /\ imp' = Return(parseGeoNode(imp.input))
  /\ UNCHANGED <<history, classified, reused, agg, db, listener, flush, ipc, race,
                 pct, view, options, stopped, checked, working, dead, total, logs,
                 deadIds, myIp, pc, proxies, queue, results, workers, store, events,
                 pendingStop, nStops>>

ImportNext ==
  \/ ExportTxt
  \/ ImportTxt
  \/ ImportCsv
  \/ ImportJson
  \/ NormalizeTable
  \/ NormalizeText
  \/ NormalizeGeoNode

ImportSpec == ImportInit /\ [][ImportNext]_vars

(* ------------------------- the Checker view --------------------------- *)
\* src/unnamed/part_000 lines 38..54 and 87..126, with the handlers of
\* part_003 lines 201..231 behind them. A run is one call of startChecking:
\* active while its checkAll in the main process has not returned, stopped
\* once 'stop-checking' reached its checker, frame while its
\* requestAnimationFrame callback is pending, and pos the await its
\* startChecking stands at. checker is the run the main process holds, 0
\* for null; stopping is a stopChecking that awaits its reply.

\* how many times the start button is pressed at most
MaxStarts == 3

ViewInit ==
  /\ Constructed
  /\ options = [threads |-> 1, deleteDead |-> FALSE, checkAnonymity |-> FALSE,
               timeout |-> 5000]
  /\ history = <<>> /\ classified = NoGrade /\ reused = 0 /\ agg = NoAgg
  /\ db = EmptyDb
  /\ listener = "attached" /\ flush = NoFlush /\ ipc = NoIpc /\ race = NoRace
  /\ pct = NoPct /\ imp = NoImp
  /\ view = NoView

ViewUnchanged ==
  UNCHANGED <<history, classified, reused, agg, db, listener, flush, ipc, race,
              pct, imp, options, stopped, checked, working, dead, total, logs,
              deadIds, myIp, pc, proxies, queue, results, workers, store, events,
              pendingStop, nStops>>

\* startChecking up to await checkProxies (lines 87..110), the start button
\* being disabled while isChecking (line 412), and the 'check-proxies'
\* handler up to await checkAll (part_003 lines 201..217)
startChecking ==
  /\ ~view.isChecking
  /\ Len(view.runs) < MaxStarts
  /\ view' = [view EXCEPT
       !.isChecking = TRUE,
       !.checkProgress = TRUE,
       !.runs = Append(@, [active |-> TRUE, stopped |-> FALSE, frame |-> TRUE,
                           pos |-> "checking"]),
       !.checker = Len(view.runs) + 1]
  /\ ViewUnchanged

\* the callback of requestAnimationFrame (line 101)
AnimationFrame(r) ==
  /\ view.runs[r].frame
  /\ view' = [view EXCEPT !.showProgress = TRUE, !.runs[r].frame = FALSE]
  /\ ViewUnchanged

\* a 'check-progress' event of an active run reaches the listener (lines
\* 49..54)
ProgressArrives(r) ==
  /\ view.runs[r].active
  /\ ~view.checkProgress
  /\ view' = [view EXCEPT !.checkProgress = TRUE]
  /\ ViewUnchanged

\* checkAll of run r returns in the main process (part_003 lines 217..220):
\* checker = null whichever run it held; startChecking goes on to
\* await loadProxies() (line 111). The animation frame of the run, due
\* within one repaint, has passed by then.
CheckReturns(r) ==
  /\ view.runs[r].active
  /\ view.runs[r].pos = "checking"
  /\ ~view.runs[r].frame
  /\ view' = [view EXCEPT !.runs[r].active = FALSE, !.runs[r].pos = "loading",
                          !.checker = 0]
  /\ ViewUnchanged

\* loadProxies has returned, or the catch clause has run: setIsChecking(false)
\* and the wait of 3 s begins (lines 116..118)
Loaded(r) ==
  /\ view.runs[r].pos = "loading"
  /\ view' = [view EXCEPT !.isChecking = FALSE, !.runs[r].pos = "tail"]
  /\ ViewUnchanged

\* the 3 s are over (lines 119..120)
TailTimer(r) ==
  /\ view.runs[r].pos = "tail"
  /\ view' = [view EXCEPT !.showProgress = FALSE, !.checkProgress = FALSE,
                          !.runs[r].pos = "done"]
  /\ ViewUnchanged

\* stopChecking up to its await (line 124), the stop button being there
\* while isChecking (line 441), and the 'stop-checking' handler (part_003
\* lines 225..231)
stopChecking ==
  /\ view.isChecking
  /\ ~view.stopping
  /\ view' = [view EXCEPT
       !.stopping = TRUE,
       !.runs = IF view.checker = 0 THEN @
                ELSE [@ EXCEPT ![view.checker].stopped = TRUE],
       !.checker = 0]
  /\ ViewUnchanged

\* the reply of 'stop-checking': setIsChecking(false) (line 125)
StopReturns ==
  /\ view.stopping
  /\ view' = [view EXCEPT !.stopping = FALSE, !.isChecking = FALSE]
  /\ ViewUnchanged

ViewNext ==
  \/ startChecking
  \/ stopChecking
  \/ StopReturns
  \/ \E r \in DOMAIN view.runs : AnimationFrame(r)
  \/ \E r \in DOMAIN view.runs : ProgressArrives(r)
  \/ \E r \in DOMAIN view.runs : CheckReturns(r)
  \/ \E r \in DOMAIN view.runs : Loaded(r)
  \/ \E r \in DOMAIN view.runs : TailTimer(r)

ViewSpec == ViewInit /\ [][ViewNext]_vars

(* --------------------------- reading the run -------------------------- *)

EventIdx(kind) == {k \in DOMAIN events : events[k].kind = kind}

EventIdxOf(kind, id) == {k \in DOMAIN events : events[k].kind = kind /\ events[k].id = id}

\* the snapshots that carry a lastResult for the endpoint at address ip
ReportIdxOf(ip) ==
  {k \in EventIdx("progress") : events[k].last /\ events[k].ip = ip}

ResultIdxOf(id) == {k \in DOMAIN results : results[k].id = id}

\* the ids handed to checkAll
CandidateIds == {proxies[k].id : k \in DOMAIN proxies}

\* stop() invocations that reached the run while it was active
ActiveStopIdx == {k \in EventIdx("stop") : events[k].phase \in {"detect", "running"}}

FirstActiveStop == CHOOSE k \in ActiveStopIdx : \A j \in ActiveStopIdx : k <= j

(* ------------------------------- claims ------------------------------- *)

\* C1: every emitted snapshot has checked = working + dead and
\* checked <= total, total being the number of candidates handed to
\* checkAll; and the last snapshot of a run on which stop() was never
\* invoked has checked = total.
C1_SnapshotCounters ==
  /\ \A k \in EventIdx("progress") :
       /\ events[k].checked = events[k].working + events[k].dead
       /\ events[k].checked <= events[k].total
       /\ events[k].total = Len(proxies)
  /\ (pc = "returned" /\ nStops = 0) =>
       /\ events[Len(events)].kind = "progress"
       /\ events[Len(events)].checked = events[Len(events)].total

C1_Witness ==
  /\ pc = "returned" /\ nStops = 0
  /\ events[Len(events)].kind = "progress"
  /\ events[Len(events)].total = 2
  /\ events[Len(events)].working = 1
  /\ events[Len(events)].dead = 1

\* C2: within one run every candidate is taken from the queue at most once,
\* gets at most one GET to testUrl (exactly one once its request was
\* issued and answered or failed: no retry), yields at most one outcome and
\* one reporting snapshot; and the outcome is appended and reported only
\* after the endpoint was taken and its own requests have returned.
C2_AtMostOnce ==
  \A id \in Pool :
    /\ Cardinality(EventIdxOf("take", id)) <= 1
    /\ Cardinality(EventIdxOf("get", id)) <= 1
    /\ Cardinality(EventIdxOf("response", id)) <= Cardinality(EventIdxOf("get", id))
    /\ Cardinality(ResultIdxOf(id)) <= 1
    /\ Cardinality(ReportIdxOf(Candidate(id).ip)) = Cardinality(ResultIdxOf(id))
    /\ \A k \in ReportIdxOf(Candidate(id).ip) :
         /\ \E j \in EventIdxOf("take", id) : j < k
         /\ \A g \in EventIdxOf("get", id) :
              g < k /\ \E j \in EventIdxOf("response", id) : g < j /\ j < k
         /\ \A g \in EventIdxOf("echoGet", id) :
              g < k /\ \E j \in EventIdxOf("echoResponse", id) : g < j /\ j < k
         /\ (EventIdxOf("get", id) = {}) => AgentThrows(Candidate(id))

C2_Witness ==
  /\ pc = "returned"
  /\ options.threads = 2
  /\ Len(results) = 2
  /\ \A k \in DOMAIN results :
       Cardinality(EventIdxOf("get", results[k].id)) = 1
  /\ \E k \in EventIdx("response") : events[k].status = "failed"

\* C3: once stop() has been invoked on a running checker no endpoint is
\* taken from the queue any more: the endpoints queued at that moment stay
\* queued and are never probed, the outcomes added afterwards are those of
\* endpoints taken before, and there are at most min(threads, total) of them.
C3_NoTakeAfterStop ==
  ActiveStopIdx # {} =>
    LET s == FirstActiveStop
    IN  /\ \A k \in EventIdx("take") : k < s
        /\ [k \in 1..Len(queue) |-> queue[k].id] = events[s].queued
        /\ \A k \in DOMAIN events[s].queued :
             /\ EventIdxOf("get", events[s].queued[k]) = {}
             /\ ResultIdxOf(events[s].queued[k]) = {}
        /\ Len(results) - events[s].nresults <= Min(options.threads, total)
        /\ \A k \in DOMAIN results :
             k > events[s].nresults =>
               \E j \in EventIdxOf("take", results[k].id) : j < s

C3_Witness ==
  /\ pc = "returned"
  /\ ActiveStopIdx # {}
  /\ events[FirstActiveStop].phase = "running"
  /\ Len(events[FirstActiveStop].queued) = 1
  /\ Len(results) = events[FirstActiveStop].nresults + 1


\* the candidates whose probe ended in an error: the test request failed,
\* or the agent could not be built
FailedIds ==
  {id \in CandidateIds :
     \/ \E k \in EventIdxOf("response", id) : events[k].status = "failed"
     \/ EventIdxOf("take", id) # {} /\ AgentThrows(Candidate(id))}

TakesBefore(k) == Cardinality({j \in EventIdx("take") : j < k})

StoppedBefore(k) == \E j \in ActiveStopIdx : j < k

DeadResultIds == {results[k].id : k \in {j \in DOMAIN results : results[j].status = "dead"}}

\* C4 as amended: if stop() is invoked after checkAll() has begun and before
\* any probe has started (while the self-address resolution is pending), no
\* worker takes any endpoint and the run ends with checked = 0 and an empty
\* outcome list.
C4_StopWhileDetecting ==
  (\E k \in EventIdx("stop") : events[k].phase = "detect") =>
    /\ EventIdx("take") = {}
    /\ EventIdx("get") = {}
    /\ checked = 0
    /\ results = <<>>
    /\ \A k \in EventIdx("progress") : events[k].checked = 0

C4_Witness ==
  /\ pc = "returned"
  /\ \E k \in EventIdx("stop") : events[k].phase = "detect"
  /\ total = 2

\* C4 as stated: cancellation issued before any probe of the run has
\* started, be it before checkAll() begins or while the self-address
\* resolution is pending, ends the run with checked = 0 and no outcome.
C4_Original ==
  (pc = "returned" /\ \E k \in EventIdx("stop") : events[k].phase \in {"before", "detect"})
    => (checked = 0 /\ results = <<>>)

C7_ProbeErrorRecovered ==
  /\ \A id \in FailedIds :
       /\ \E k \in DOMAIN logs : logs[k].msg = "error" /\ logs[k].id = id
       /\ \A k \in ResultIdxOf(id) :
            /\ results[k].status = "dead"
            /\ results[k].latency = Undefined
            /\ results[k].anonymity = "undefined"
       /\ \A k \in ReportIdxOf(Candidate(id).ip) :
            /\ events[k].status = "dead"
            /\ (total - TakesBefore(k) > 0 /\ ~StoppedBefore(k)) =>
                 (k < Len(events) /\ events[k + 1].kind = "take")
  /\ \A k \in DOMAIN logs : logs[k].msg = "error" => logs[k].id \in FailedIds
  /\ \A w \in WorkerIds : ~workers[w].threw /\ workers[w].st # "rejected"
  /\ pc # "rejected"
  /\ (pc = "returned" /\ ActiveStopIdx = {}) => Len(results) = total

C7_Witness ==
  /\ pc = "returned"
  /\ options.threads = 1
  /\ \E id \in FailedIds :
       /\ ~AgentThrows(Candidate(id))
       /\ \E k \in ReportIdxOf(Candidate(id).ip) :
            k < Len(events) /\ events[k + 1].kind = "take"
  /\ \E k \in DOMAIN results : results[k].status = "working"

\* C8 as amended: with deleteDead enabled a run issues at most one
\* deleteProxies call, none before all workers have returned; it issues
\* exactly one if at least one endpoint was found dead and none otherwise;
\* the argument of the call is exactly the ids of the endpoints found dead.
C8_BatchDeletion ==
  options.deleteDead =>
    /\ Cardinality(EventIdx("deleteProxies")) <= 1
    /\ pc # "returned" => EventIdx("deleteProxies") = {}
    /\ pc = "returned" =>
         /\ (EventIdx("deleteProxies") # {}) <=> (DeadResultIds # {})
         /\ \A k \in EventIdx("deleteProxies") :
              /\ {events[k].ids[j] : j \in DOMAIN events[k].ids} = DeadResultIds
              /\ Len(events[k].ids) = Cardinality(DeadResultIds)
              /\ \A i \in DeadResultIds : ~store[i].present

C8_Witness ==
  /\ pc = "returned"
  /\ options.deleteDead
  /\ Cardinality(DeadResultIds) = 2
  /\ EventIdx("deleteProxies") # {}

\* C8 as stated: with deleteDead enabled a run issues exactly one
\* deleteProxies call.
C8_Original ==
  (pc = "returned" /\ options.deleteDead) => Cardinality(EventIdx("deleteProxies")) = 1

\* C9: with deleteDead enabled no updateProxy call is made for a dead
\* outcome; every working outcome has exactly one updateProxy call, with its
\* id, status, latency and anonymity, made right before the snapshot that
\* reports it, and from then on the store holds it, cancelled run or not.
C9_WorkingPersisted ==
  /\ options.deleteDead =>
       \A k \in EventIdx("updateProxy") : events[k].status = "working"
  /\ \A k \in EventIdx("updateProxy") : ResultIdxOf(events[k].id) # {}
  /\ \A k \in DOMAIN results :
       results[k].status = "working" =>
         LET r == results[k]
             U == EventIdxOf("updateProxy", r.id)
         IN  /\ Cardinality(U) = 1
             /\ \A u \in U :
                  /\ events[u].status = "working"
                  /\ r.latency # Undefined /\ events[u].latency = r.latency
                  /\ r.anonymity # "undefined" /\ events[u].anonymity = r.anonymity
                  /\ u < Len(events)
                  /\ events[u + 1].kind = "progress" /\ events[u + 1].last
                  /\ events[u + 1].ip = r.ip /\ events[u + 1].status = "working"
             /\ store[r.id] = [present |-> TRUE, status |-> "working",
                               latency |-> r.latency, anonymity |-> r.anonymity]

C9_Witness ==
  /\ pc = "returned"
  /\ ActiveStopIdx # {}
  /\ options.deleteDead
  /\ \E k \in DOMAIN results : results[k].status = "working"
  /\ \E k \in DOMAIN results : results[k].status = "dead"

\* C10 as amended: when stop() is not invoked during the run, the list
\* returned by checkAll has one outcome per candidate and so the length of
\* the candidate list, also when no endpoint is working and also for the dead
\* endpoints that deleteDead removed from the store; a run never returns
\* more outcomes than candidates.
C10_CompleteList ==
  /\ Len(results) <= Len(proxies)
  /\ \A k \in DOMAIN results : results[k].id \in CandidateIds
  /\ (pc = "returned" /\ ActiveStopIdx = {}) =>
       /\ Len(results) = Len(proxies)
       /\ \A id \in CandidateIds : Cardinality(ResultIdxOf(id)) = 1

C10_Witness ==
  /\ pc = "returned"
  /\ ActiveStopIdx = {}
  /\ options.deleteDead
  /\ Len(proxies) = 2
  /\ working = 0
  /\ Len(results) = 2
  /\ \A k \in DOMAIN results : ~store[results[k].id].present

\* C10 as stated: the list returned by checkAll has length equal to the
\* candidate count.
C10_Original == pc = "returned" => Len(results) = Len(proxies)

\* C11: the retained log never has more than 500 entries; up to 500 appended
\* entries are all retained, and once more than 500 have been appended the
\* log holds exactly the 500 most recently appended ones in emission order.
C11_LogBounded ==
  /\ Len(logs) <= LogCap
  /\ Len(history) <= LogCap => logs = history
  /\ Len(history) > LogCap =>
       /\ Len(logs) = LogCap
       /\ logs = SubSeq(history, Len(history) - LogCap + 1, Len(history))

C11_Witness ==
  /\ Len(history) = LogCap + 7
  /\ Len(logs) = LogCap
  /\ logs[1].id = 8 /\ logs[LogCap].id = LogCap + 7

\* C12: the outcome checkProxy returns is working exactly when its one
\* test request was answered with a status code in 200..399, and dead for
\* every other code, for a failed request and for an agent that could not
\* be built; an outcome carries a latency (that of the request) if and only
\* if it is working, in the returned list and in the reporting snapshot too.
C12_Classification ==
  /\ \A i \in WorkerIds :
       workers[i].st \in {"echo", "resolved"} =>
         LET r == workers[i].result
         IN  /\ r.id = workers[i].proxy.id
             /\ r.status \in {"working", "dead"}
             /\ (r.status = "working") <=>
                  (workers[i].response >= 200 /\ workers[i].response <= 399)
             /\ (r.latency # Undefined) <=> (r.status = "working")
             /\ r.status = "working" => r.latency \in Latencies
             /\ Cardinality(EventIdxOf("get", r.id)) =
                  IF workers[i].response = 0 THEN 0 ELSE 1
  /\ \A k \in DOMAIN results :
       LET r == results[k]
       IN  /\ r.status \in {"working", "dead"}
           /\ (r.latency # Undefined) <=> (r.status = "working")
           /\ r.status = "working" =>
                \E j \in EventIdxOf("response", r.id) : events[j].status = "answered"
           /\ \A j \in ReportIdxOf(r.ip) :
                events[j].status = r.status /\ events[j].latency = r.latency

C12_Witness ==
  /\ \E i \in WorkerIds :
       /\ workers[i].st = "resolved" /\ workers[i].response = 399
       /\ workers[i].result.status = "working" /\ workers[i].result.latency = 120
  /\ \E i \in WorkerIds :
       /\ workers[i].st = "resolved" /\ workers[i].response = 400
       /\ workers[i].result.status = "dead" /\ workers[i].result.latency = Undefined

\* the own address occurs, whatever the case, in the serialized headers
SelfOccurs(ip, headers) ==
  \E e \in headers : Lower(ip) \in (Contains(Lower(e.name)) \cup Contains(Lower(e.value)))

\* one of the six proxy-revealing names is the name of a header
RevealingNamePresent(headers) == \E e \in headers : Lower(e.name) \in ProxyHeaders

\* C13: the grade is transparent if the own address occurs anywhere in the
\* serialized headers, whatever the other headers; otherwise anonymous if
\* and only if one of the six proxy-revealing names is present among the
\* header names; otherwise elite.
C13_Original ==
  classified.grade # "none" =>
    classified.grade =
      IF SelfOccurs(classified.ip, classified.headers) THEN "transparent"
      ELSE IF RevealingNamePresent(classified.headers) THEN "anonymous"
      ELSE "elite"

\* C14: in a run whose self-address resolution failed or returned no
\* address, no echo probe is issued and every working outcome has anonymity
\* unknown; also in a later run of a checker whose earlier run resolved the
\* address.
C14_Original ==
  (\E k \in EventIdx("ipResponse") : events[k].status \in {"fail", "empty"}) =>
    /\ EventIdx("echoGet") = {}
    /\ \A k \in DOMAIN results :
         results[k].status = "working" => results[k].anonymity = "unknown"

\* the snapshots with a lastResult up to position k of the run
ReportsUpTo(k) == {j \in EventIdx("progress") : events[j].last /\ j <= k}

\* C15: the bookkeeping of one outcome (append, store update or collection,
\* counters, snapshot) is never interleaved with that of another worker:
\* at all times checked is the number of outcomes appended and the number
\* of updateProxy calls plus the number of collected dead ids, every
\* snapshot with a lastResult shows exactly that, and the store update of
\* an outcome is immediately followed by the snapshot reporting it.
C15_NoInterleaving ==
  /\ checked = Len(results)
  /\ checked = Cardinality(EventIdx("updateProxy")) + Len(deadIds)
  /\ checked = working + dead
  /\ \A k \in EventIdx("progress") :
       events[k].last =>
         /\ events[k].checked = Cardinality(ReportsUpTo(k))
         /\ events[k].checked =
              Cardinality({j \in EventIdx("updateProxy") : j < k}) + events[k].deleted
         /\ results[events[k].checked].ip = events[k].ip
         /\ \/ /\ events[k - 1].kind = "updateProxy"
               /\ Candidate(events[k - 1].id).ip = events[k].ip
            \/ /\ events[k].status = "dead" /\ options.deleteDead
               /\ events[k - 1].kind # "updateProxy"

C15_Witness ==
  /\ pc = "returned"
  /\ options.threads = 2 /\ options.deleteDead
  /\ Len(results) = 2
  /\ results[1].id > results[2].id
  /\ results[1].status = "dead" /\ results[2].status = "working"
  /\ \A j \in EventIdx("response") : \A k \in ReportsUpTo(Len(events)) : j < k

AggIdx(kind) == {k \in DOMAIN agg.events : agg.events[k].kind = kind}

AggIdxOf(kind, i) == {k \in AggIdx(kind) : agg.events[k].source = i}

\* a fetch of the source at position i was rejected or answered with a
\* body of another shape
SourceFailed(i) ==
  \E k \in AggIdxOf("fetched", i) : agg.events[k].status \in {"rejected", "malformed"}

\* the (ip, port) pairs of a list of parsed records
KeysOf(l) == {Key(l[k]) : k \in DOMAIN l}

\* C16: a source whose fetch throws or whose body is malformed gets a
\* progress event with status error, no other source does, and the
\* remaining sources are still fetched and their endpoints appear in the
\* result.
C16_Original ==
  agg.pc = "returned" =>
    \A i \in DOMAIN agg.sources :
      /\ SourceFailed(i) <=>
           (\E k \in AggIdxOf("progress", i) : agg.events[k].status = "error")
      /\ NeedsFetch(agg.sources[i], agg.filters, 1) => AggIdxOf("fetch", i) # {}
      /\ KeysOf(agg.perSource[i]) \subseteq KeysOf(agg.result)

\* the progress events of the call, in emission order
ProgressEvents == SelectSeq(agg.events, LAMBDA e : e.kind = "progress")

\* C17: the sources are processed one at a time in list order; each gets
\* exactly one progress event with status parsing and count 0 before its
\* fetches and exactly one terminal event (done or error) after them and
\* before the parsing event of the next source; at the return the number of
\* progress events is twice the number of sources.
C17_Sequential ==
  /\ \A k \in DOMAIN ProgressEvents :
       LET e == ProgressEvents[k]
       IN  /\ e.source = (k + 1) \div 2
           /\ e.source \in DOMAIN agg.sources /\ e.name = agg.sources[e.source]
           /\ (k % 2 = 1) => (e.status = "parsing" /\ e.count = 0)
           /\ (k % 2 = 0) => e.status \in {"done", "error"}
  /\ agg.pc = "returned" => Len(ProgressEvents) = 2 * Len(agg.sources)
  /\ agg.pc = "fetching" => Len(ProgressEvents) = 2 * agg.idx - 1
  /\ \A i \in DOMAIN agg.sources :
       \A f \in AggIdxOf("fetch", i) \cup AggIdxOf("fetched", i) :
         /\ \E k \in AggIdxOf("progress", i) : k < f /\ agg.events[k].status = "parsing"
         /\ \A k \in AggIdxOf("progress", i) : agg.events[k].status # "parsing" => f < k
  /\ Cardinality(AggIdx("fetch")) - Cardinality(AggIdx("fetched"))
       = IF agg.pc = "fetching" THEN 1 ELSE 0

C17_Witness ==
  /\ agg.pc = "returned"
  /\ Len(agg.sources) = 2
  /\ SourceFailed(1)
  /\ agg.perSource[2] # <<>>
  /\ Len(ProgressEvents) = 4
  /\ Cardinality(AggIdxOf("fetch", 2)) = 3

RECURSIVE Concat(_)
\* the lists of a list of lists, one after the other
Concat(ls) == IF ls = <<>> THEN <<>> ELSE Head(ls) \o Concat(Tail(ls))

\* the positions in l of the records with the key of q
SameKeyIdx(l, q) == {k \in DOMAIN l : Key(l[k]) = Key(q)}

\* C18: with a non-empty filters.types every returned endpoint has a type
\* equal, ignoring case, to a requested one; the returned list has no two
\* endpoints with the same (ip, port), holds every (ip, port) that passed
\* the filter, and for each the record seen first in source order, the
\* records staying in the order in which they were first seen.
C18_FilteredUnique ==
  agg.pc = "returned" =>
    LET all == agg.allProxies
        res == agg.result
    IN  /\ (agg.filters.given /\ Len(agg.filters.types) > 0) =>
             \A k \in DOMAIN res : \E t \in DOMAIN agg.filters.types :
               Upper(agg.filters.types[t]) = Upper(res[k].type)
        /\ \A j, k \in DOMAIN res : Key(res[j]) = Key(res[k]) => j = k
        /\ KeysOf(res) = KeysOf(all)
        /\ \A k \in DOMAIN res :
             /\ SameKeyIdx(all, res[k]) # {}
             /\ res[k] = all[CHOOSE i \in SameKeyIdx(all, res[k]) :
                               \A j \in SameKeyIdx(all, res[k]) : i <= j]
        /\ \A j, k \in DOMAIN res :
             j < k => \E i \in SameKeyIdx(all, res[j]) :
                        \A m \in SameKeyIdx(all, res[k]) : i < m
        /\ all = Concat(agg.perSource)

C18_Witness ==
  /\ agg.pc = "returned"
  /\ agg.filters.types = <<"https", "socks5">>
  /\ agg.sources = <<"geonode", "table">>
  /\ Len(agg.allProxies) = 3
  /\ Len(agg.result) = 2
  /\ \E k \in DOMAIN agg.result : agg.result[k].type = "SOCKS5"
  /\ \E k \in DOMAIN agg.result :
       agg.result[k].from = 1 /\ Cardinality(SameKeyIdx(agg.allProxies, agg.result[k])) = 2

\* a list of parsed records without the mark of the source position
Strip(l) == [k \in DOMAIN l |-> [ip |-> l[k].ip, port |-> l[k].port, type |-> l[k].type]]

\* C19: deduplication by ip:port is idempotent: a source list that holds
\* the same source twice, returning the same listing both times, yields the
\* candidate list that the source yields once, and deduplicating the
\* returned list again leaves it unchanged.
C19_Idempotent ==
  agg.pc = "returned" =>
    /\ Dedup(agg.result) = agg.result
    /\ Dedup(agg.result \o agg.result) = agg.result
    /\ ( /\ Len(agg.sources) = 2
         /\ agg.sources[1] = agg.sources[2]
         /\ Strip(agg.perSource[1]) = Strip(agg.perSource[2]) )
         => /\ Strip(agg.result) = Strip(Dedup(agg.perSource[1]))
            /\ \A k \in DOMAIN agg.result : agg.result[k].from = 1

C19_Witness ==
  /\ agg.pc = "returned"
  /\ agg.sources = <<"geonode", "geonode">>
  /\ Len(agg.perSource[1]) = 3
  /\ Strip(agg.perSource[1]) = Strip(agg.perSource[2])
  /\ Len(agg.allProxies) = 6
  /\ Len(agg.result) = 3

\* the keys of the endpoints of list that the table can take
ValidKeys(list) == {<<list[k].ip, list[k].port>> : k \in {j \in DOMAIN list : list[j].port # Undefined}}

\* C20: after any sequence of insertProxies, updateProxy, deleteProxies and
\* clearAllProxies calls no two rows of the table have the same (ip, port)
\* or the same id; an insertProxies call adds one row for each new
\* (ip, port) of its list and none for an (ip, port) that is already stored.
C20_UniqueRows ==
  /\ \A r, o \in db.rows : (r.ip = o.ip /\ r.port = o.port) => r = o
  /\ \A r, o \in db.rows : r.id = o.id => r = o
  /\ db.op.kind = "insert" =>
       /\ Cardinality(db.rows)
            = Cardinality(db.prevKeys) + Cardinality(ValidKeys(db.op.list) \ db.prevKeys)
       /\ ValidKeys(db.op.list) \subseteq db.prevKeys =>
            Cardinality(db.rows) = Cardinality(db.prevKeys)

C20_Witness ==
  /\ db.op.kind = "insert"
  /\ Len(db.op.list) = 2
  /\ ValidKeys(db.op.list) = {<<1, 80>>}
  /\ db.prevKeys = {<<1, 80>>, <<2, 80>>}
  /\ Cardinality(db.rows) = 2
  /\ \E r \in db.rows : r.type = "SOCKS5" /\ r.id = db.last

\* the endpoints for which createAgent handed checkProxy an agent (line
\* 189); the test request of line 193 is issued with it at once
AgentsOpened == {events[k].id : k \in EventIdx("get")}

\* the endpoints whose agent was handed back (agent.destroy()); no statement
\* of checkProxy, checkAnonymity or checkAll does that, on any path
AgentsReleased == {events[k].id : k \in EventIdx("release")}

\* C21: every agent opened for a probe in checkProxy is released on every
\* exit path of the probe (success, a status outside 2xx/3xx, error or
\* timeout, failure of the echo probe, cancellation): once the outcome of an
\* endpoint is in the result list its agent has been released, and after the
\* run has returned no agent opened by it is still open.
C21_Original ==
  /\ \A k \in DOMAIN results : results[k].id \in AgentsOpened => results[k].id \in AgentsReleased
  /\ pc = "returned" => AgentsOpened \subseteq AgentsReleased

\* the transport kinds an endpoint can have
SupportedTypes == {"HTTP", "HTTPS", "SOCKS4", "SOCKS5"}

\* C22: an endpoint whose transport kind is not one of HTTP, HTTPS, SOCKS4,
\* SOCKS5 is rejected before it enters the queue: it is never taken from the
\* queue, never probed, and never yields a 'working' or 'dead' outcome.
C22_Original ==
  \A id \in CandidateIds :
    Candidate(id).type \notin SupportedTypes =>
      /\ \A k \in DOMAIN queue : queue[k].id # id
      /\ EventIdxOf("take", id) = {}
      /\ EventIdxOf("get", id) = {}
      /\ ResultIdxOf(id) = {}

\* C23: the run does not depend on what observes its progress: with no
\* listener, with a listener, and with a listener that throws when called,
\* no worker and no run ends in a fault, and a run on which stop() was never
\* invoked returns one outcome for every candidate, each persisted or
\* collected for the batch deletion.
C23_Original ==
  /\ pc # "rejected"
  /\ \A i \in WorkerIds : workers[i].st # "rejected"
  /\ (pc = "returned" /\ nStops = 0) =>
       /\ Len(results) = total
       /\ \A k \in DOMAIN results :
            \/ EventIdxOf("updateProxy", results[k].id) # {}
            \/ \E j \in DOMAIN deadIds : deadIds[j] = results[k].id

\* the processNext invocations checkAll has started, and those that wait
\* for a request of their probe
StartedWorkers == {i \in WorkerIds : workers[i].st # "none"}

ProbingWorkers == {i \in WorkerIds : workers[i].st \in {"probing", "echo"}}

\* the requests through proxies that were issued and have not returned
OpenRequests ==
  Cardinality(EventIdx("get")) + Cardinality(EventIdx("echoGet"))
    - Cardinality(EventIdx("response")) - Cardinality(EventIdx("echoResponse"))

\* C24: checkAll starts exactly min(threads, number of candidates) workers,
\* none before the self-address resolution has returned and none for an
\* empty list; at every moment at most that many probes are in flight.
C24_WorkerBound ==
  /\ pc \in {"running", "returned"} =>
       Cardinality(StartedWorkers) = Min(options.threads, Len(proxies))
  /\ pc \in {"idle", "detect"} => StartedWorkers = {}
  /\ Len(proxies) = 0 => StartedWorkers = {}
  /\ Cardinality(ProbingWorkers) <= Min(options.threads, Len(proxies))
  /\ OpenRequests = Cardinality(ProbingWorkers)

C24_Witness ==
  /\ pc = "running"
  /\ options.threads = 2
  /\ Len(proxies) = 2
  /\ Cardinality(StartedWorkers) = 2
  /\ Cardinality(ProbingWorkers) = 2
  /\ OpenRequests = 2

\* the snapshots of the current run that carry a lastResult
LastIdx == {k \in EventIdx("progress") : events[k].last}

\* C25: the first snapshot of every run, also of a run on a checker that
\* was used before, has checked = working = dead = deleted = 0; from one
\* snapshot of a run to the next checked, working, dead and deleted never
\* decrease, and checked grows by exactly one from one snapshot with a
\* lastResult to the next.
C25_Snapshots ==
  /\ \A k \in EventIdx("progress") :
       (\A j \in EventIdx("progress") : k <= j) =>
         /\ events[k].checked = 0 /\ events[k].working = 0
         /\ events[k].dead = 0 /\ events[k].deleted = 0
         /\ ~events[k].last
  /\ \A j, k \in EventIdx("progress") :
       j < k => /\ events[j].checked <= events[k].checked
                /\ events[j].working <= events[k].working
                /\ events[j].dead <= events[k].dead
                /\ events[j].deleted <= events[k].deleted
  /\ \A k \in LastIdx :
       events[k].checked = Cardinality({j \in LastIdx : j < k}) + 1

C25_Witness ==
  /\ reused = 1
  /\ pc = "returned"
  /\ options.deleteDead
  /\ \E id \in Pool \ CandidateIds : store[id].present /\ store[id].status = "working"
  /\ Cardinality(LastIdx) = 2
  /\ events[Len(events)].checked = 2
  /\ events[Len(events)].working = 1
  /\ events[Len(events)].deleted = 1

\* the endpoints whose echo request failed
EchoFailedIds == {events[k].id : k \in {j \in EventIdx("echoResponse") : events[j].status = "failed"}}

\* C26: a failure of the echo probe never changes reachability: the
\* endpoint keeps the outcome 'working' with the latency of its test
\* request, its anonymity is 'unknown', and so it is reported and written
\* to the store; with checkAnonymity off no echo request (and no
\* self-address request) is issued and every working outcome has
\* anonymity 'unknown'.
C26_EchoFailure ==
  /\ \A id \in EchoFailedIds :
       /\ \A k \in ResultIdxOf(id) :
            /\ results[k].status = "working"
            /\ results[k].latency \in Latencies
            /\ results[k].anonymity = "unknown"
       /\ \A k \in EventIdxOf("updateProxy", id) :
            /\ events[k].status = "working"
            /\ events[k].latency \in Latencies
            /\ events[k].anonymity = "unknown"
       /\ \A j \in DOMAIN deadIds : deadIds[j] # id
       /\ \A i \in WorkerIds :
            (workers[i].st = "resolved" /\ workers[i].proxy.id = id) =>
              /\ workers[i].result.status = "working"
              /\ workers[i].result.latency \in Latencies
              /\ workers[i].result.anonymity = "unknown"
              /\ ~workers[i].threw
  /\ ~options.checkAnonymity =>
       /\ EventIdx("echoGet") = {}
       /\ EventIdx("ipGet") = {}
       /\ \A k \in DOMAIN results :
            results[k].status = "working" => results[k].anonymity = "unknown"

C26_Witness ==
  /\ pc = "returned"
  /\ options.deleteDead
  /\ \E id \in EchoFailedIds :
       /\ \E k \in ResultIdxOf(id) :
            /\ results[k].status = "working"
            /\ results[k].latency = 120
            /\ results[k].anonymity = "unknown"
       /\ store[id].present /\ store[id].status = "working" /\ store[id].latency = 120
  /\ working = 1 /\ dead = 1

\* the requests a run issues: the self-address request, the test requests
\* and the echo requests
RequestIdx == EventIdx("ipGet") \cup EventIdx("get") \cup EventIdx("echoGet")

\* C27: every request issued by a run (the test request of an endpoint,
\* the self-address request, the echo request) is bounded by the same
\* timeout, the configured options.timeout.
C27_Original ==
  \A k \in RequestIdx : events[k].timeout = options.timeout

\* C28: after any sequence of updateProxy calls fewer than 100 applied
\* updates are unflushed at any time, the counter of updateProxy counts
\* exactly them, a timer is pending whenever an update is unflushed, and
\* every applied update is eventually flushed: at once by the call that
\* makes the count 100, or by the timer after the last update.
C28_Buffered ==
  /\ [](flush.unflushed < FlushEvery)
  /\ [](flush.unflushed = flush.pendingUpdates)
  /\ [](flush.unflushed > 0 => flush.saveTimeout)
  /\ [][flush.pendingUpdates = FlushEvery - 1 /\ flush.pendingUpdates' # FlushEvery - 1
          => flush.unflushed' = 0]_vars
  /\ (flush.unflushed > 0 ~> flush.unflushed = 0)

\* the hundredth update in a row was applied: the table was saved by the
\* call itself, the timer of the update before is still pending
C28_Witness ==
  /\ flush.calls = FlushEvery
  /\ flush.pendingUpdates = 0
  /\ flush.unflushed = 0
  /\ flush.saveTimeout

\* C29: whenever a run started through 'check-proxies' is still active, a
\* 'stop-checking' request sets the cancellation flag of the active run
\* that was started last, whatever 'check-proxies' invocations, run
\* completions and 'stop-checking' requests came before.
C29_Original ==
  (ipc.stop.seen /\ ipc.stop.newest # 0) => ipc.runs[ipc.stop.newest].stopped

\* the stored rows of the endpoint the run wrote last
RowsOfLast == {r \in db.rows : r.ip = race.last.ip /\ r.port = race.last.port}

\* C30: when insertProxies upserts an endpoint while a run holds its id,
\* the run's later updateProxy for that id still reaches the stored record
\* of that endpoint (the record has the status the run wrote), its later
\* deleteProxies removes that record, and neither touches the record of a
\* different endpoint (the row with the id the run used is a row of that
\* endpoint).
C30_Original ==
  /\ race.last.kind = "update" =>
       \A r \in RowsOfLast : r.status = race.last.status
  /\ race.last.kind = "delete" => RowsOfLast = {}
  /\ race.last.kind # "none" =>
       \A r \in db.rows : r.id = race.last.id => r \in RowsOfLast

\* the half of C30 that the table does keep: the id a run holds never names
\* the row of another endpoint
HeldIdsKeepTheirEndpoint ==
  \A h \in race.held, r \in db.rows : r.id = h.id => (r.ip = h.ip /\ r.port = h.port)

\* the rows the run has removed from the store before event k: those of
\* the deleteProxies call of line 134, once it was made
RemovedBefore(k) ==
  IF \E j \in EventIdx("deleteProxies") : j < k
    THEN Len(events[CHOOSE j \in EventIdx("deleteProxies") : j < k].ids)
    ELSE 0

\* C34, amended: in every snapshot deleted = dead when deleteDead is on and
\* deleted = 0 when it is off; deleted counts the endpoints collected for
\* the batch deletion, none of which is removed from the store before the
\* end of the run, and in the last snapshot of a run that returned it is
\* the number of endpoints the run removed.
C34_DeletedCount ==
  /\ \A k \in EventIdx("progress") :
       /\ events[k].deleted = IF options.deleteDead THEN events[k].dead ELSE 0
       /\ RemovedBefore(k) \in {0, events[k].deleted}
       /\ events[k].last => RemovedBefore(k) = 0
  /\ pc = "running" =>
       /\ EventIdx("deleteProxies") = {}
       /\ \A j \in DOMAIN deadIds : store[deadIds[j]].present
  /\ pc = "returned" =>
       /\ events[Len(events)].kind = "progress"
       /\ events[Len(events)].deleted = RemovedBefore(Len(events))
       /\ \A j \in DOMAIN deadIds : ~store[deadIds[j]].present

\* a snapshot reports one deleted endpoint while the row is still stored
C34_Witness ==
  /\ pc = "running"
  /\ options.deleteDead
  /\ Len(deadIds) = 1
  /\ store[deadIds[1]].present
  /\ \E k \in EventIdx("progress") :
       events[k].last /\ events[k].deleted = 1 /\ events[k].dead = 1

\* C34: in every snapshot deleted = dead when deleteDead is on and
\* deleted = 0 when it is off, and the deleted value of a snapshot never
\* exceeds the number of endpoints the run has removed from the store when
\* the snapshot is emitted.
C34_Original ==
  \A k \in EventIdx("progress") :
    /\ events[k].deleted = IF options.deleteDead THEN events[k].dead ELSE 0
    /\ events[k].deleted <= RemovedBefore(k)

\* C35: the percent of every snapshot is an integer in 0..100, is 0 when
\* total is 0, does not decrease as checked grows, and is 100 only when
\* checked = total.
C35_Original ==
  pct.percent # Undefined =>
    /\ pct.percent \in 0..100
    /\ pct.total = 0 => pct.percent = 0
    /\ \A c \in 0..pct.checked : Percent(c, pct.total) <= pct.percent
    /\ pct.percent = 100 => pct.checked = pct.total

\* what does hold of the percent: all of C35 but its last part
PercentInRange ==
  pct.percent # Undefined =>
    /\ pct.percent \in 0..100
    /\ pct.total = 0 => pct.percent = 0
    /\ \A c \in 0..pct.checked : Percent(c, pct.total) <= pct.percent
    /\ pct.checked = pct.total /\ pct.total > 0 => pct.percent = 100

(* ------------------------------- C31 ---------------------------------- *)

\* the calls that produce endpoints from a listing or a file
Producers == {"parseTxt", "parseCsv", "parseJson", "parseFreeProxyList",
              "parseProxyScrape", "parseGeoNode"}

\* C31, as stated: every endpoint the source normalizers and the file
\* importers produce has an integer port in 1..65535, an entry with a port
\* that is 0, negative, not a number or above 65535 being dropped. Only the
\* IP:PORT branch of parseLine tests the range: the URI branch takes any run
\* of digits, parseCsv tests isNaN alone, parseJson and the normalizers of
\* tables and text listings test truthiness alone, parseGeoNode nothing.
C31_Original ==
  (imp.stage = "return" /\ imp.fn \in Producers)
    => \A k \in DOMAIN imp.output : imp.output[k].port \in 1..65535

\* what does hold: the endpoints of the IP:PORT lines of a .txt file have a
\* port in 1..65535
PlainLinePortsInRange ==
  (imp.stage = "return" /\ imp.fn = "parseTxt" /\ imp.input \in PlainLines)
    => \A k \in DOMAIN imp.output : imp.output[k].port \in 1..65535

(* ------------------------------- C32 ---------------------------------- *)

\* the kind the scheme of a URI line stands for
KindOfScheme(cs) ==
  CASE cs = Chars("http")   -> Chars("HTTP")
    [] cs = Chars("https")  -> Chars("HTTPS")
    [] cs = Chars("socks4") -> Chars("SOCKS4")
    [] cs = Chars("socks5") -> Chars("SOCKS5")
    [] cs = Chars("socks")  -> Chars("SOCKS5")

\* C32, as stated: for a URI line with scheme http, https, socks4, socks5
\* or socks, parseLine produces an endpoint whose kind is the one of HTTP,
\* HTTPS, SOCKS4, SOCKS5 that the scheme stands for. The code replaces the
\* first SOCKS of the upper-cased scheme by SOCKS5, so socks4 gives SOCKS54
\* and socks5 gives SOCKS55.
C32_Original ==
  (imp.stage = "return" /\ imp.fn = "parseTxt" /\ imp.input \in UriLines
     /\ uriMatch(imp.input).matched)
    => /\ Len(imp.output) = 1
       /\ imp.output[1].type = KindOfScheme(toLowerCase(Chars(imp.input[1])))

\* what does hold: the schemes http, https and socks give HTTP, HTTPS, SOCKS5
PlainSchemesKeepTheirKind ==
  (imp.stage = "return" /\ imp.fn = "parseTxt" /\ imp.input \in UriLines
     /\ uriMatch(imp.input).matched
     /\ imp.input[1] \in {"http", "https", "socks"})
    => /\ Len(imp.output) = 1
       /\ imp.output[1].type = KindOfScheme(Chars(imp.input[1]))

(* ------------------------------- C33 ---------------------------------- *)

\* C33, as stated: importing the text exportToTxt wrote for endpoints with
\* a valid address and a port in 1..65535 yields the same ip and port, for
\* an endpoint with both username and password the same username and
\* password, and for one without credentials one without. A username or a
\* password that holds a colon, or ends with a space, comes back cut.
C33_Original ==
  (imp.stage = "return" /\ imp.fn = "parseTxt" /\ imp.origin # <<>>)
    => /\ Len(imp.output) = Len(imp.origin)
       /\ \A k \in DOMAIN imp.origin :
            /\ imp.output[k].ip = imp.origin[k].ip
            /\ imp.output[k].port = imp.origin[k].port
            /\ (imp.origin[k].username # <<>> /\ imp.origin[k].password # <<>>)
                 => /\ imp.output[k].username = imp.origin[k].username
                    /\ imp.output[k].password = imp.origin[k].password
            /\ (imp.origin[k].username = <<>> /\ imp.origin[k].password = <<>>)
                 => /\ imp.output[k].username = <<>>
                    /\ imp.output[k].password = <<>>

\* what does hold: the address and the port come back, one endpoint a line
RoundTripKeepsAddressAndPort ==
  (imp.stage = "return" /\ imp.fn = "parseTxt" /\ imp.origin # <<>>)
    => /\ Len(imp.output) = Len(imp.origin)
       /\ \A k \in DOMAIN imp.origin :
            /\ imp.output[k].ip = imp.origin[k].ip
            /\ imp.output[k].port = imp.origin[k].port

(* ------------------------------- C36 ---------------------------------- *)

\* the runs the view started that are active in the main process, were not
\* stopped by the user, and whose animation frame has passed
RunsToShow ==
  {r \in DOMAIN view.runs :
     view.runs[r].active /\ ~view.runs[r].stopped /\ ~view.runs[r].frame}

\* the progress panel is rendered (part_000 line 206)
PanelShown == view.showProgress /\ view.checkProgress

\* C36, as stated: the completion tail of startChecking affects only its
\* own run, so for every interleaving of startChecking, stopChecking and
\* run completion isChecking is true and the progress panel is shown
\* whenever a run the view started, and the user did not stop, is active in
\* the main process. The tail of an earlier run writes the same isChecking,
\* showProgress and checkProgress as a later run that began meanwhile.
C36_Original == RunsToShow # {} => (view.isChecking /\ PanelShown)

\* what does hold: as long as the start button was pressed once
OneRunIsShown ==
  (Len(view.runs) = 1 /\ RunsToShow # {}) => (view.isChecking /\ PanelShown)

====
